---- MODULE Spec2Model ----
(***************************************************************************)
(* PDF generation pipeline (generatePdf), its helpers (isValidUrl,         *)
(* createResponse, authenticate, parseRequestBody,                         *)
(* setupPageErrorCollection, calculateCost, protectPdf) and the Lambda     *)
(* request handler that wraps it.  The pipeline is the revision of         *)
(* core.ts that reads pageUrl, inputProps, pdfOptions and s3BucketConfig   *)
(* and encrypts with encryptPDF; the handler is index.ts.                  *)
(*                                                                         *)
(* Every `await` on an external capability (browser, page, encryption      *)
(* library, object store, timer) is a suspension point: the call is        *)
(* issued by one action and its outcome is delivered by the next, and      *)
(* page events and clock ticks may happen in between.  Synchronous code    *)
(* between two suspension points is one atomic step.                       *)
(***************************************************************************)
EXTENDS Integers, Sequences, FiniteSets, TLC

VARIABLES
    env,              \* process.env, fixed for the life of the process
    hpc,              \* position of the request handler
    pc,               \* position of generatePdf (the operation awaited)
    requestData,      \* parseResult.data handed to generatePdf
    browser,          \* the handler's `browser` local: "null", "open", "closed"
    calls,            \* external operations issued so far, in order
    settled,          \* how each awaited operation settled, in order
    navResponse,      \* generatePdf's `response` local (what page.goto gave)
    pageErrors,       \* live list filled by the page listeners
    consoleMessages,  \* live list filled by the console listener
    pdfBuffer,        \* generatePdf's `pdfBuffer` local
    isPasswordProtected,
    bucketName,
    objectKey,
    metrics,          \* result of calculateCost
    puts,             \* PutObjectCommands sent to the store, in order
    store,            \* objects the store holds (completed puts)
    startTime,
    requestId,
    ticks,            \* clock ticks elapsed
    result,           \* what generatePdf returned or threw
    response,         \* what the handler resolved or rejected with
    protectIn,        \* input of a stand-alone protectPdf call
    protectOut,       \* its outcome
    urlIn,            \* argument of a stand-alone isValidUrl call
    urlOut,           \* its outcome
    costIn,           \* arguments of a stand-alone calculateCost call
    costOut,          \* its outcome
    event,            \* the handler's argument
    emitted,          \* events the page has emitted so far, in order
    runs,             \* concurrent calls of generatePdf: each call's locals
    heap              \* the ErrorCollection objects allocated so far

vars == <<env, hpc, pc, requestData, browser, calls, settled, navResponse,
          pageErrors, consoleMessages,
          pdfBuffer, isPasswordProtected, bucketName, objectKey, metrics, puts,
          store, startTime, requestId, ticks, result, response, protectIn,
          urlIn, urlOut, costIn, costOut,
          protectOut, event, emitted, runs, heap>>

(***************************************************************************)
(* Bounds of the model.                                                    *)
(***************************************************************************)
MaxEvents == 2     \* page events delivered in one run
MaxTicks == 1      \* clock ticks in one run
TickMs == 1500     \* milliseconds per clock tick

(***************************************************************************)
(* JavaScript values.                                                      *)
(***************************************************************************)
Undefined == "undefined"
Falsy(s) == s = Undefined \/ s = ""
Truthy(s) == ~Falsy(s)
\* a || b on optional strings
OrElse(a, b) == IF Truthy(a) THEN a ELSE b
\* an optional non-string value: <<>> is undefined, <<v>> is v
None == <<>>
Some(v) == <<v>>
IsSome(o) == Len(o) = 1

Now == ticks * TickMs

(***************************************************************************)
(* isValidUrl.  `new URL(s)` is the platform's parser: URLProtocol gives   *)
(* the protocol it reports for each candidate, or "throws".                *)
(***************************************************************************)
UrlCandidates ==
    { "https://example.com", "http://localhost:3000/report",
      "javascript:alert(1)", "ftp://x", "file:///etc/passwd", "not a url",
      "/relative/path", "http://" }

\* the arguments of isValidUrl called on its own: the candidates and further
\* shapes (a data: URL, an opaque mailto:, an upper-case scheme, which the
\* parser lower-cases, a scheme-relative reference, a scheme without host,
\* the empty string)
UrlStrings ==
    UrlCandidates \cup
    { "data:text/html,hi", "mailto:a@b.c", "HTTPS://EXAMPLE.COM/a",
      "//example.com/x", "https://", "" }

URLProtocol(s) ==
    CASE s = "https://example.com" -> "https:"
      [] s = "http://localhost:3000/report" -> "http:"
      [] s = "javascript:alert(1)" -> "javascript:"
      [] s = "ftp://x" -> "ftp:"
      [] s = "file:///etc/passwd" -> "file:"
      [] s = "data:text/html,hi" -> "data:"
      [] s = "mailto:a@b.c" -> "mailto:"
      [] s = "HTTPS://EXAMPLE.COM/a" -> "https:"
      [] OTHER -> "throws"

\* accepts the secure scheme only
isValidUrl_HttpsOnly(urlString) == URLProtocol(urlString) = "https:"

\* accepts whatever parses
isValidUrl_AnyScheme(urlString) == URLProtocol(urlString) # "throws"

isValidUrl(urlString) ==
    LET protocol == URLProtocol(urlString)
    IN  IF protocol = "throws" THEN FALSE
        ELSE protocol = "http:" \/ protocol = "https:"

(***************************************************************************)
(* Responses.  JSON.stringify keeps the structure of its argument and      *)
(* drops undefined fields: a payload is a record whose absent fields are   *)
(* Undefined / None.                                                       *)
(***************************************************************************)
EmptyPayload ==
    [ message |-> Undefined, error |-> Undefined, stack |-> Undefined,
      status |-> None, statusText |-> Undefined,
      pageErrors |-> None, consoleMessages |-> None,
      requestId |-> Undefined, bucket |-> Undefined, key |-> Undefined,
      s3Url |-> Undefined, security |-> None, metrics |-> None ]

createResponse(statusCode, data, allow) ==
    [ statusCode |-> statusCode,
      headers |-> [ ContentType |-> "application/json", Allow |-> allow ],
      body |-> data,
      pdfBuffer |-> None ]

NoResponse == createResponse(0, EmptyPayload, Undefined)

Returned(r) == [ kind |-> "return", value |-> r, error |-> Undefined ]
Thrown(e) == [ kind |-> "throw", value |-> NoResponse, error |-> e ]
NoOutcome == [ kind |-> "none", value |-> NoResponse, error |-> Undefined ]

(***************************************************************************)
(* authenticate.  Headers are a set of <<name, value>> pairs; Lower is     *)
(* String.prototype.toLowerCase on the header names in use.                *)
(***************************************************************************)
Lower(name) ==
    CASE name = "X-API-Key" -> "x-api-key"
      [] name = "X-Api-Key" -> "x-api-key"
      [] name = "Content-Type" -> "content-type"
      [] OTHER -> name

HeaderValue(normalizedHeaders, name) ==
    IF \E h \in normalizedHeaders : h[1] = name
    THEN (CHOOSE h \in normalizedHeaders : h[1] = name)[2]
    ELSE Undefined

\* looks the header up under its lower-case name without normalising
authenticate_CaseSensitive(headers, validApiKey) ==
    LET apiKey == HeaderValue(headers, "x-api-key")
    IN  IF Falsy(validApiKey)
        THEN [ valid |-> FALSE,
               response |-> createResponse(500,
                   [EmptyPayload EXCEPT
                       !.message = "Server configuration error: API_KEY not set"],
                   Undefined) ]
        ELSE IF Falsy(apiKey) \/ apiKey # validApiKey
        THEN [ valid |-> FALSE,
               response |-> createResponse(401,
                   [EmptyPayload EXCEPT
                       !.message = "Unauthorized. Valid API key required."],
                   Undefined) ]
        ELSE [ valid |-> TRUE, response |-> NoResponse ]

authenticate(headers, validApiKey) ==
    LET normalizedHeaders == { <<Lower(h[1]), h[2]>> : h \in headers }
        apiKey == HeaderValue(normalizedHeaders, "x-api-key")
    IN  IF Falsy(validApiKey)
        THEN [ valid |-> FALSE,
               response |-> createResponse(500,
                   [EmptyPayload EXCEPT
                       !.message = "Server configuration error: API_KEY not set"],
                   Undefined) ]
        ELSE IF Falsy(apiKey) \/ apiKey # validApiKey
        THEN [ valid |-> FALSE,
               response |-> createResponse(401,
                   [EmptyPayload EXCEPT
                       !.message = "Unauthorized. Valid API key required."],
                   Undefined) ]
        ELSE [ valid |-> TRUE, response |-> NoResponse ]

(***************************************************************************)
(* Requests.                                                               *)
(***************************************************************************)
PdfOptionsSet ==
    [ waitTime : {0, 500}, failOnErrors : BOOLEAN, includeConsoleLogs : BOOLEAN ]

S3Configs ==
    { [ bucket |-> Undefined, key |-> Undefined, fileName |-> Undefined ],
      [ bucket |-> Undefined, key |-> "reports", fileName |-> Undefined ],
      [ bucket |-> "my-bucket", key |-> "reports", fileName |-> "report.pdf" ] }

Securities ==
    [ password : {Undefined, "secret123"}, ownerPassword : {Undefined, "owner456"} ]

\* every combination of options around each candidate but one, which comes
\* with the default options only
Requests ==
    [ pageUrl : (UrlCandidates \ {"http://localhost:3000/report"})
                \cup {Undefined, ""},
      inputProps : {"{}"},
      pdfOptions : PdfOptionsSet,
      s3BucketConfig : S3Configs,
      security : Securities ]
    \cup
    { [ pageUrl |-> "http://localhost:3000/report", inputProps |-> "{}",
        pdfOptions |-> [ waitTime |-> 0, failOnErrors |-> FALSE,
                         includeConsoleLogs |-> FALSE ],
        s3BucketConfig |-> [ bucket |-> Undefined, key |-> Undefined,
                             fileName |-> Undefined ],
        security |-> [ password |-> Undefined, ownerPassword |-> Undefined ] ] }

NoRequest ==
    [ pageUrl |-> Undefined, inputProps |-> "{}",
      pdfOptions |-> [ waitTime |-> 0, failOnErrors |-> FALSE,
                       includeConsoleLogs |-> FALSE ],
      s3BucketConfig |-> [ bucket |-> Undefined, key |-> Undefined,
                           fileName |-> Undefined ],
      security |-> [ password |-> Undefined, ownerPassword |-> Undefined ] ]

\* parseResult.data: present is FALSE when the field is undefined
NoData == [ present |-> FALSE, v |-> NoRequest ]
Data(r) == [ present |-> TRUE, v |-> r ]

(***************************************************************************)
(* parseRequestBody.  A body is absent, the empty string, or a text that   *)
(* is plain or base64-encoded and does or does not hold JSON.              *)
(***************************************************************************)
Bodies ==
    { [ raw |-> "absent", base64 |-> FALSE, json |-> FALSE, data |-> NoRequest ],
      [ raw |-> "empty", base64 |-> FALSE, json |-> FALSE, data |-> NoRequest ] }
    \cup [ raw : {"text"}, base64 : BOOLEAN, json : {FALSE}, data : {NoRequest} ]
    \cup [ raw : {"text"}, base64 : BOOLEAN, json : {TRUE}, data : Requests ]

\* JSON.parse succeeds on the decoded text iff the text was decoded the way it
\* was encoded and holds JSON
DecodesToJson(body, isBase64Encoded) ==
    body.json /\ body.base64 = isBase64Encoded

\* swallows the parse error and goes on without data
parseRequestBody_Lenient(body, isBase64Encoded) ==
    IF DecodesToJson(body, isBase64Encoded)
    THEN [ success |-> TRUE, data |-> Data(body.data), response |-> NoResponse ]
    ELSE [ success |-> TRUE, data |-> NoData, response |-> NoResponse ]

parseRequestBody(body, isBase64Encoded) ==
    IF body.raw = "absent" \/ body.raw = "empty"
    THEN [ success |-> TRUE, data |-> NoData, response |-> NoResponse ]
    ELSE IF DecodesToJson(body, isBase64Encoded)
    THEN [ success |-> TRUE, data |-> Data(body.data), response |-> NoResponse ]
    ELSE [ success |-> FALSE, data |-> NoData,
           response |-> createResponse(400,
               [EmptyPayload EXCEPT !.message = "Invalid JSON in request body",
                                    !.error = "SyntaxError"],
               Undefined) ]

HeaderSets ==
    { {}, {<<"x-api-key", "k1">>}, {<<"X-API-Key", "k1">>},
      {<<"x-api-key", "wrong">>} }

\* two requests that stand for the rest where the event's envelope varies
SampleRequests ==
    { [NoRequest EXCEPT !.pageUrl = "https://example.com"],
      [NoRequest EXCEPT !.pageUrl = "ftp://x"] }

SampleBodies ==
    { b \in Bodies : b.json => b.data \in SampleRequests }

\* every envelope (headers, method, encoding) around the sample bodies, and
\* every request in one accepted envelope
Events ==
    [ headers : HeaderSets,
      httpMethod : {Undefined, "POST", "GET"},
      rcMethod : {Undefined, "POST"},
      body : SampleBodies,
      isBase64Encoded : BOOLEAN ]
    \cup
    [ headers : { {<<"x-api-key", "k1">>} },
      httpMethod : {"POST"},
      rcMethod : {Undefined},
      body : [ raw : {"text"}, base64 : {FALSE}, json : {TRUE}, data : Requests ],
      isBase64Encoded : {FALSE} ]

NoEvent ==
    [ headers |-> {}, httpMethod |-> Undefined, rcMethod |-> Undefined,
      body |-> [ raw |-> "absent", base64 |-> FALSE, json |-> FALSE,
                 data |-> NoRequest ],
      isBase64Encoded |-> FALSE ]

\* process.env: a deployed function, a local development server that skips
\* the store, and a function deployed without its API key
Envs ==
    { [ API_KEY |-> "k1", NODE_ENV |-> Undefined, SKIP_S3 |-> Undefined,
        PDF_BUCKET |-> "env-bucket", AWS_REGION |-> Undefined,
        AWS_LAMBDA_FUNCTION_MEMORY_SIZE |-> Undefined ],
      [ API_KEY |-> "k1", NODE_ENV |-> "development", SKIP_S3 |-> "true",
        PDF_BUCKET |-> Undefined, AWS_REGION |-> Undefined,
        AWS_LAMBDA_FUNCTION_MEMORY_SIZE |-> Undefined ],
      [ API_KEY |-> Undefined, NODE_ENV |-> Undefined, SKIP_S3 |-> Undefined,
        PDF_BUCKET |-> Undefined, AWS_REGION |-> Undefined,
        AWS_LAMBDA_FUNCTION_MEMORY_SIZE |-> Undefined ] }

(***************************************************************************)
(* setupPageErrorCollection: the two listeners.                            *)
(***************************************************************************)
ConsoleTypes == {"log", "error"}

\* what the page hands to the listeners: a ConsoleMessage (type(), text(),
\* location()) or an Error (message, stack)
ConsoleMessage(type) ==
    [ kind |-> "console", type |-> type, text |-> "console text",
      location |-> "loc", stack |-> Undefined ]

PageError ==
    [ kind |-> "pageerror", type |-> Undefined, text |-> "error message",
      location |-> Undefined, stack |-> "error stack" ]

ConsoleEntry(type) ==
    [ type |-> type, text |-> "console text", location |-> "loc",
      stack |-> Undefined ]

PageErrorEntry ==
    [ type |-> "pageerror", text |-> "error message", location |-> Undefined,
      stack |-> "error stack" ]

\* copies every console message into pageErrors
onConsole_AllAreErrors(s, type) ==
    [ s EXCEPT !.consoleMessages = Append(@, ConsoleEntry(type)),
               !.pageErrors = Append(@, ConsoleEntry(type)) ]

\* page.on("console", ...)
onConsole(s, type) ==
    [ s EXCEPT !.consoleMessages = Append(@, ConsoleEntry(type)),
               !.pageErrors = IF type = "error"
                              THEN Append(@, ConsoleEntry(type)) ELSE @ ]

\* page.on("pageerror", ...)
onPageError(s) ==
    [ s EXCEPT !.pageErrors = Append(@, PageErrorEntry) ]

(***************************************************************************)
(* calculateCost.  Money is exact: rates are in units of 1e-10 USD, and    *)
(* toFixed(7) results are integers in units of 1e-7 USD.                   *)
(***************************************************************************)
DURATION_RATE == 133334      \* 0.0000133334 USD per GB-second
STORAGE_RATE == 309          \* 0.0000000309 USD per GB-second
REQUEST_RATE == 2000         \* 0.0000002 USD
S3_PUT_COST == 50000         \* 0.000005 USD
MIN_EPHEMERAL_STORAGE_MB == 512
DEFAULT_MEMORY_MB == 1024

Max(a, b) == IF a >= b THEN a ELSE b

\* (durationMs * w / 1000 / 1024) in units of 1e-10 USD, rounded half up to
\* units of 1e-7 USD; w is split so that no product exceeds 32 bits
ToFixed7(durationMs, w) ==
    ( durationMs * (w \div 10000) + 51200
      + (durationMs * (w % 10000)) \div 10000 ) \div 102400

\* lines 119-121: the table, by its own keys
LAMBDA_PRICING ==
    [ r \in {"ap-south-1"} |->
        [ duration |-> DURATION_RATE, storage |-> STORAGE_RATE,
          requests |-> REQUEST_RATE ] ]

\* names the table inherits from Object.prototype: looking one of them up
\* yields a function or an object, which is truthy and has no duration,
\* storage or requests
ObjectPrototypeKeys ==
    {"constructor", "toString", "valueOf", "hasOwnProperty", "__proto__"}

\* line 132: LAMBDA_PRICING[region] || LAMBDA_PRICING["ap-south-1"];
\* defined is FALSE when the three rates read as undefined
Pricing(region) ==
    IF region \in DOMAIN LAMBDA_PRICING
    THEN [ defined |-> TRUE,
           duration |-> LAMBDA_PRICING[region].duration,
           storage |-> LAMBDA_PRICING[region].storage,
           requests |-> LAMBDA_PRICING[region].requests ]
    ELSE IF region \in ObjectPrototypeKeys
    THEN [ defined |-> FALSE, duration |-> 0, storage |-> 0, requests |-> 0 ]
    ELSE [ defined |-> TRUE,
           duration |-> LAMBDA_PRICING["ap-south-1"].duration,
           storage |-> LAMBDA_PRICING["ap-south-1"].storage,
           requests |-> LAMBDA_PRICING["ap-south-1"].requests ]

\* raised: line 151 calls toFixed on the undefined requestCost, a TypeError

calculateCost(durationMs, memorySizeMB, diskSizeMB, region) ==
    LET pricing == Pricing(region)
        chargedDiskSize == Max(0, diskSizeMB - MIN_EPHEMERAL_STORAGE_MB)
        computeW == pricing.duration * memorySizeMB
        storageW == chargedDiskSize * pricing.storage
        fixed == (pricing.requests + S3_PUT_COST) \div 1000
        totalCost == ToFixed7(durationMs, computeW + storageW) + fixed
    IN  [ raised |-> ~pricing.defined,
          region |-> region,
          durationMs |-> durationMs,
          durationSeconds |-> durationMs,
          memorySizeMB |-> memorySizeMB,
          diskSizeMB |-> diskSizeMB,
          estimatedCostUSD |-> totalCost,
          breakdown |-> [ computeCost |-> ToFixed7(durationMs, computeW),
                          storageCost |-> ToFixed7(durationMs, storageW),
                          requestCost |-> pricing.requests \div 1000,
                          s3PutCost |-> S3_PUT_COST \div 1000,
                          totalCost |-> totalCost ] ]

(***************************************************************************)
(* protectPdf.  A buffer is its content plus the encryption applied to     *)
(* it.  encryptPDF is the external library: lib is its outcome, "ok" or    *)
(* "throws".                                                               *)
(***************************************************************************)
PlainPdf(data) ==
    [ data |-> data, encrypted |-> FALSE, userPassword |-> Undefined,
      ownerPassword |-> Undefined ]

encryptPDF(pdfBytes, userPassword, ownerPassword) ==
    [ data |-> pdfBytes.data, encrypted |-> TRUE,
      userPassword |-> userPassword, ownerPassword |-> ownerPassword ]

LibOutcomes == {"ok", "throws"}

\* tests for undefined only, so an empty password reaches the library
protectPdfSkips_Strict(userPassword, ownerPassword) ==
    userPassword = Undefined /\ ownerPassword = Undefined

\* the guard of line 163: no library call is made
protectPdfSkips(userPassword, ownerPassword) ==
    Falsy(userPassword) /\ Falsy(ownerPassword)

\* gives the library no owner password unless one was supplied
protectPdf_NoOwnerFallback(pdfBytes, userPassword, ownerPassword, lib) ==
    IF protectPdfSkips(userPassword, ownerPassword)
    THEN [ raised |-> FALSE, buffer |-> pdfBytes, protected |-> FALSE,
           libCalls |-> 0, error |-> Undefined ]
    ELSE IF lib = "ok"
    THEN [ raised |-> FALSE,
           buffer |-> encryptPDF(pdfBytes, OrElse(userPassword, ""),
                          OrElse(ownerPassword, "")),
           protected |-> TRUE, libCalls |-> 1, error |-> Undefined ]
    ELSE [ raised |-> FALSE, buffer |-> pdfBytes, protected |-> FALSE,
           libCalls |-> 1, error |-> "encryption failed" ]

\* lets the library's failure escape
protectPdf_NoCatch(pdfBytes, userPassword, ownerPassword, lib) ==
    IF protectPdfSkips(userPassword, ownerPassword)
    THEN [ raised |-> FALSE, buffer |-> pdfBytes, protected |-> FALSE,
           libCalls |-> 0, error |-> Undefined ]
    ELSE IF lib = "ok"
    THEN [ raised |-> FALSE,
           buffer |-> encryptPDF(pdfBytes, OrElse(userPassword, ""),
                          OrElse(ownerPassword, OrElse(userPassword, ""))),
           protected |-> TRUE, libCalls |-> 1, error |-> Undefined ]
    ELSE [ raised |-> TRUE, buffer |-> pdfBytes, protected |-> FALSE,
           libCalls |-> 1, error |-> "encryption failed" ]

protectPdf(pdfBytes, userPassword, ownerPassword, lib) ==
    IF protectPdfSkips(userPassword, ownerPassword)
    THEN [ raised |-> FALSE, buffer |-> pdfBytes, protected |-> FALSE,
           libCalls |-> 0, error |-> Undefined ]
    ELSE IF lib = "ok"
    THEN [ raised |-> FALSE,
           buffer |-> encryptPDF(pdfBytes, OrElse(userPassword, ""),
                          OrElse(ownerPassword, OrElse(userPassword, ""))),
           protected |-> TRUE, libCalls |-> 1, error |-> Undefined ]
    ELSE [ raised |-> FALSE, buffer |-> pdfBytes, protected |-> FALSE,
           libCalls |-> 1, error |-> "encryption failed" ]

(***************************************************************************)
(* The state a step works on, as a record, and its write-back.  The        *)
(* synchronous stretches of the handler and of generatePdf are operators    *)
(* from state to state; an action applies the stretches that run between   *)
(* two suspension points.                                                  *)
(***************************************************************************)
S ==
    [ hpc |-> hpc, pc |-> pc, browser |-> browser, calls |-> calls,
      settled |-> settled, navResponse |-> navResponse,
      pageErrors |-> pageErrors, consoleMessages |-> consoleMessages,
      pdfBuffer |-> pdfBuffer, isPasswordProtected |-> isPasswordProtected,
      bucketName |-> bucketName, objectKey |-> objectKey, metrics |-> metrics,
      puts |-> puts, store |-> store, startTime |-> startTime,
      requestId |-> requestId, result |-> result, response |-> response ]

Commit(s) ==
    /\ hpc' = s.hpc
    /\ pc' = s.pc
    /\ browser' = s.browser
    /\ calls' = s.calls
    /\ settled' = s.settled
    /\ navResponse' = s.navResponse
    /\ pageErrors' = s.pageErrors
    /\ consoleMessages' = s.consoleMessages
    /\ pdfBuffer' = s.pdfBuffer
    /\ isPasswordProtected' = s.isPasswordProtected
    /\ bucketName' = s.bucketName
    /\ objectKey' = s.objectKey
    /\ metrics' = s.metrics
    /\ puts' = s.puts
    /\ store' = s.store
    /\ startTime' = s.startTime
    /\ requestId' = s.requestId
    /\ result' = s.result
    /\ response' = s.response

\* an external operation is called and awaited
Await(s, op, where) == [ s EXCEPT !.calls = Append(@, op), !.pc = where ]

\* the awaited operation settled with outcome o
Settle(s, o) == [ s EXCEPT !.settled = Append(@, o) ]

Count(seq, op) == Cardinality({ i \in 1..Len(seq) : seq[i] = op })

Req == requestData.v

(***************************************************************************)
(* Handler (index.ts).                                                     *)
(***************************************************************************)
Resolved(r) == [ kind |-> "resolve", value |-> r, error |-> Undefined ]
Pending(r) == [ kind |-> "pending", value |-> r, error |-> Undefined ]
Rejected(e) == [ kind |-> "reject", value |-> NoResponse, error |-> e ]

\* puts the stack in every error response
handlerCatch_AlwaysStack(error) ==
    createResponse(500,
        [EmptyPayload EXCEPT
            !.message = "Failed to generate or upload PDF",
            !.error = error,
            !.stack = "stack"],
        Undefined)

\* catch block, lines 61-69
handlerCatch(error) ==
    createResponse(500,
        [EmptyPayload EXCEPT
            !.message = "Failed to generate or upload PDF",
            !.error = error,
            !.stack = IF env.NODE_ENV = "development" THEN "stack" ELSE Undefined],
        Undefined)

\* closes the browser at the end of the try block, not in a finally
handlerFinally_OnlyOnSuccess(s, r) ==
    IF s.browser = "open" /\ r.statusCode = 200
    THEN [ s EXCEPT !.response = Pending(r), !.hpc = "closing",
                    !.calls = Append(@, "browser.close") ]
    ELSE [ s EXCEPT !.response = Resolved(r), !.hpc = "done" ]

\* finally block, lines 70-74: the value to return is r
handlerFinally(s, r) ==
    IF s.browser = "open"
    THEN [ s EXCEPT !.response = Pending(r), !.hpc = "closing",
                    !.calls = Append(@, "browser.close") ]
    ELSE [ s EXCEPT !.response = Resolved(r), !.hpc = "done" ]

\* lines 51-69: generatePdf has settled with `outcome`
handlerAfterPipeline(s, outcome) ==
    IF outcome.kind = "return"
    THEN handlerFinally(s, [outcome.value EXCEPT !.pdfBuffer = None])
    ELSE handlerFinally(s, handlerCatch(outcome.error))

\* generatePdf settles and the handler goes on
Finish(s, outcome) ==
    handlerAfterPipeline([ s EXCEPT !.result = outcome, !.pc = "returned" ],
                         outcome)

(***************************************************************************)
(* generatePdf, stretch by stretch.                                        *)
(***************************************************************************)
RandomSuffixes == {"abc1234"}

\* Math.random().toString(36).substring(2, 9) where two calls are compared:
\* any draw can come up again
RandomDraws == RandomSuffixes \cup {"k3x9q0z"}

\* line 187
newRequestId(now, rnd) == "req-" \o ToString(now) \o "-" \o rnd

\* renders a default page when the request names none
genStart_DefaultUrl(s, rnd) ==
    LET s1 == [ s EXCEPT !.startTime = Now,
                         !.requestId = newRequestId(Now, rnd) ]
    IN  IF ~requestData.present
        THEN Finish(s1, Thrown("TypeError"))
        ELSE IF Falsy(Req.pageUrl)
        THEN Await(s1, "newPage", "newPage")
        ELSE IF ~isValidUrl(Req.pageUrl)
        THEN Finish(s1, Returned(createResponse(400,
                 [EmptyPayload EXCEPT !.message = "Invalid URL provided"],
                 Undefined)))
        ELSE Await(s1, "newPage", "newPage")

\* lines 186-202
genStart(s, rnd) ==
    LET s1 == [ s EXCEPT !.startTime = Now,
                         !.requestId = newRequestId(Now, rnd) ]
    IN  IF ~requestData.present
        THEN Finish(s1, Thrown("TypeError"))
        ELSE IF Falsy(Req.pageUrl)
        THEN Finish(s1, Returned(createResponse(400,
                 [EmptyPayload EXCEPT !.message = "pageUrl is required"],
                 Undefined)))
        ELSE IF ~isValidUrl(Req.pageUrl)
        THEN Finish(s1, Returned(createResponse(400,
                 [EmptyPayload EXCEPT !.message = "Invalid URL provided"],
                 Undefined)))
        ELSE Await(s1, "newPage", "newPage")

\* navigates without registering inputProps
afterNewPage_NoInject(s) ==
    Await([ s EXCEPT !.calls = @ \o <<"on:console", "on:pageerror">>,
                     !.pageErrors = <<>>, !.consoleMessages = <<>> ],
          "goto", "goto")

\* lines 204-209: setupPageErrorCollection, then evaluateOnNewDocument
afterNewPage(s) ==
    Await([ s EXCEPT !.calls = @ \o <<"on:console", "on:pageerror">>,
                     !.pageErrors = <<>>, !.consoleMessages = <<>> ],
          "evaluateOnNewDocument", "inject")

\* lines 211-214
afterInject(s) == Await(s, "goto", "goto")

NoNav == [ kind |-> "none", status |-> 0, statusText |-> Undefined ]

NavOutcomes ==
    { [ kind |-> "null", status |-> 0, statusText |-> Undefined ],
      [ kind |-> "response", status |-> 200, statusText |-> "OK" ],
      [ kind |-> "response", status |-> 404, statusText |-> "Not Found" ],
      [ kind |-> "response", status |-> 500, statusText |-> "Server Error" ],
      [ kind |-> "throw", status |-> 0, statusText |-> Undefined ] }

\* HTTPResponse.ok(): a status in 200..299
ResponseOk(nav) == nav.status >= 200 /\ nav.status <= 299

\* forgets the status check
navigationFailed_NullOnly(nav) == nav.kind = "null"

\* line 216: !response || !response.ok()
navigationFailed(nav) == nav.kind = "null" \/ ~ResponseOk(nav)

\* tolerates one error
thresholdHit_OffByOne(errors, failOnErrors) == Len(errors) > 1 /\ failOnErrors

\* fails the run on any error, asked for or not
thresholdHit_AnyError(errors, failOnErrors) == Len(errors) > 0

\* line 229
thresholdHit(errors, failOnErrors) == Len(errors) > 0 /\ failOnErrors

\* goes on to rasterize without looking at the error log
afterWait_NoCheck(s) == Await(s, "pdf", "pdf")

\* lines 229-242
afterWait(s) ==
    IF thresholdHit(s.pageErrors, Req.pdfOptions.failOnErrors)
    THEN Finish(s, Returned(createResponse(422,
             [EmptyPayload EXCEPT !.message = "Page loaded with errors",
                                  !.pageErrors = Some(s.pageErrors),
                                  !.consoleMessages = Some(s.consoleMessages)],
             Undefined)))
    ELSE Await(s, "pdf", "pdf")

\* waits and tests the error threshold before looking at the response
afterGoto_ThresholdFirst(s0, nav) ==
    LET s == [ s0 EXCEPT !.navResponse = nav ]
    IN
    IF Req.pdfOptions.waitTime # 0
    THEN Await(s, "setTimeout", "wait")
    ELSE IF thresholdHit(s.pageErrors, Req.pdfOptions.failOnErrors)
    THEN afterWait(s)
    ELSE IF navigationFailed(nav)
    THEN Finish(s, Returned(createResponse(502,
             [EmptyPayload EXCEPT
                 !.message = "Failed to load the page",
                 !.status = IF nav.kind = "null" THEN None ELSE Some(nav.status),
                 !.statusText = nav.statusText,
                 !.pageErrors = Some(s.pageErrors)],
             Undefined)))
    ELSE afterWait(s)

\* lines 211-227: page.goto resolved with nav
afterGoto(s0, nav) ==
    LET s == [ s0 EXCEPT !.navResponse = nav ]
    IN
    IF navigationFailed(nav)
    THEN Finish(s, Returned(createResponse(502,
             [EmptyPayload EXCEPT
                 !.message = "Failed to load the page",
                 !.status = IF nav.kind = "null" THEN None ELSE Some(nav.status),
                 !.statusText = nav.statusText,
                 !.pageErrors = Some(s.pageErrors)],
             Undefined)))
    ELSE IF Req.pdfOptions.waitTime # 0
    THEN Await(s, "setTimeout", "wait")
    ELSE afterWait(s)

(***************************************************************************)
(* Upload, metrics, progress record and the success response.              *)
(***************************************************************************)
PdfBody(bytes) == [ pdf |-> Some(bytes), json |-> None ]
JsonBody(doc) == [ pdf |-> None, json |-> Some(doc) ]

PutObjectCommand(bucket, key, body, contentType) ==
    [ Bucket |-> bucket, Key |-> key, Body |-> body, ContentType |-> contentType ]

skipS3 == env.SKIP_S3 = "true"

S3Url(bucket, key) == "https://" \o bucket \o ".s3.amazonaws.com/" \o key

\* parseInt(process.env.AWS_LAMBDA_FUNCTION_MEMORY_SIZE || "1024", 10)
MemorySize ==
    IF Falsy(env.AWS_LAMBDA_FUNCTION_MEMORY_SIZE) THEN DEFAULT_MEMORY_MB
    ELSE 2 * DEFAULT_MEMORY_MB

\* lines 284-286 and 312-314
securityOutcome(s) ==
    [ password |-> IF s.isPasswordProtected THEN Req.security.password
                   ELSE Undefined ]

\* lines 272-291
progressData(s) ==
    [ requestId |-> s.requestId,
      timestamp |-> "iso-" \o ToString(Now),
      request |-> [ pageUrl |-> Req.pageUrl, inputProps |-> Req.inputProps,
                    pdfOptions |-> Req.pdfOptions,
                    s3BucketConfig |-> Req.s3BucketConfig ],
      response |-> [ status |-> "success",
                     bucket |-> s.bucketName,
                     key |-> s.objectKey,
                     s3Url |-> S3Url(s.bucketName, s.objectKey),
                     hasErrors |-> Len(s.pageErrors) > 0,
                     errorCount |-> Len(s.pageErrors) ],
      security |-> securityOutcome(s),
      metrics |-> [ durationMs |-> s.metrics.durationMs,
                    totalCostUSD |-> s.metrics.breakdown.totalCost ] ]

\* returns the console log whether or not it was asked for
successResponse_AlwaysLogs(s) ==
    [ createResponse(200,
        [EmptyPayload EXCEPT
            !.message = "PDF generated successfully",
            !.requestId = s.requestId,
            !.bucket = s.bucketName,
            !.key = s.objectKey,
            !.s3Url = IF skipS3 THEN Undefined
                      ELSE S3Url(s.bucketName, s.objectKey),
            !.security = Some(securityOutcome(s)),
            !.metrics = Some([ durationMs |-> s.metrics.durationMs,
                               totalCostUSD |-> s.metrics.breakdown.totalCost ]),
            !.pageErrors = IF Len(s.pageErrors) > 0 THEN Some(s.pageErrors)
                           ELSE None,
            !.consoleMessages = Some(s.consoleMessages)],
        Undefined)
      EXCEPT !.pdfBuffer = Some(s.pdfBuffer) ]

\* tests the error threshold once more after the uploads
successResponse_LateThreshold(s) ==
    IF thresholdHit(s.pageErrors, Req.pdfOptions.failOnErrors)
    THEN createResponse(422,
             [EmptyPayload EXCEPT !.message = "Page loaded with errors",
                                  !.pageErrors = Some(s.pageErrors),
                                  !.consoleMessages = Some(s.consoleMessages)],
             Undefined)
    ELSE [ createResponse(200,
             [EmptyPayload EXCEPT
                 !.message = "PDF generated successfully",
                 !.requestId = s.requestId,
                 !.bucket = s.bucketName,
                 !.key = s.objectKey,
                 !.s3Url = IF skipS3 THEN Undefined
                           ELSE S3Url(s.bucketName, s.objectKey),
                 !.security = Some(securityOutcome(s)),
                 !.metrics = Some([ durationMs |-> s.metrics.durationMs,
                                    totalCostUSD |-> s.metrics.breakdown.totalCost ]),
                 !.pageErrors = IF Len(s.pageErrors) > 0 THEN Some(s.pageErrors)
                                ELSE None,
                 !.consoleMessages = IF Req.pdfOptions.includeConsoleLogs
                                     THEN Some(s.consoleMessages) ELSE None],
             Undefined)
           EXCEPT !.pdfBuffer = Some(s.pdfBuffer) ]

\* lines 305-323
successResponse(s) ==
    [ createResponse(200,
        [EmptyPayload EXCEPT
            !.message = "PDF generated successfully",
            !.requestId = s.requestId,
            !.bucket = s.bucketName,
            !.key = s.objectKey,
            !.s3Url = IF skipS3 THEN Undefined
                      ELSE S3Url(s.bucketName, s.objectKey),
            !.security = Some(securityOutcome(s)),
            !.metrics = Some([ durationMs |-> s.metrics.durationMs,
                               totalCostUSD |-> s.metrics.breakdown.totalCost ]),
            !.pageErrors = IF Len(s.pageErrors) > 0 THEN Some(s.pageErrors)
                           ELSE None,
            !.consoleMessages = IF Req.pdfOptions.includeConsoleLogs
                                THEN Some(s.consoleMessages) ELSE None],
        Undefined)
      EXCEPT !.pdfBuffer = Some(s.pdfBuffer) ]

\* ignores the configured folder
progressKey_Fixed == "pdfs/progress.json"

\* line 294
progressKey ==
    IF Truthy(Req.s3BucketConfig.key)
    THEN Req.s3BucketConfig.key \o "/progress.json"
    ELSE "pdfs/progress.json"

\* writes the progress record whatever SKIP_S3 says
metricsStage_AlwaysUploads(s) ==
    LET durationMs == Now - s.startTime
        region == OrElse(env.AWS_REGION, "ap-south-1")
        s1 == [ s EXCEPT !.metrics = calculateCost(durationMs, MemorySize,
                                                   MIN_EPHEMERAL_STORAGE_MB, region) ]
    IN  Await([ s1 EXCEPT !.puts = Append(@,
                    PutObjectCommand(s1.bucketName, progressKey,
                        JsonBody(progressData(s1)), "application/json")) ],
              "put", "putProgress")

\* lines 267-305: metrics, progress record, its upload unless skipped
metricsStage(s) ==
    LET durationMs == Now - s.startTime
        region == OrElse(env.AWS_REGION, "ap-south-1")
        s1 == [ s EXCEPT !.metrics = calculateCost(durationMs, MemorySize,
                                                   MIN_EPHEMERAL_STORAGE_MB, region) ]
    IN  IF s1.metrics.raised
        THEN Finish(s, Thrown("TypeError"))
        ELSE IF ~skipS3
        THEN Await([ s1 EXCEPT !.puts = Append(@,
                        PutObjectCommand(s1.bucketName, progressKey,
                            JsonBody(progressData(s1)), "application/json")) ],
                   "put", "putProgress")
        ELSE Finish(s1, Returned(successResponse(s1)))

\* sends the artifact without awaiting it
uploadStage_NoAwait(s) ==
    LET bucket == OrElse(Req.s3BucketConfig.bucket,
                         OrElse(env.PDF_BUCKET, "pdf-storage-1"))
        fileName == OrElse(Req.s3BucketConfig.fileName,
                           "page-" \o ToString(Now) \o ".pdf")
        key == IF Truthy(Req.s3BucketConfig.key)
               THEN Req.s3BucketConfig.key \o "/" \o fileName
               ELSE "pdfs/" \o fileName
        s1 == [ s EXCEPT !.bucketName = bucket, !.objectKey = key ]
    IN  IF ~skipS3
        THEN metricsStage([ s1 EXCEPT
                 !.puts = Append(@, PutObjectCommand(bucket, key,
                                        PdfBody(s1.pdfBuffer), "application/pdf")),
                 !.calls = Append(@, "put") ])
        ELSE metricsStage(s1)

\* lines 251-265: names, and the artifact's upload unless skipped
uploadStage(s) ==
    LET bucket == OrElse(Req.s3BucketConfig.bucket,
                         OrElse(env.PDF_BUCKET, "pdf-storage-1"))
        fileName == OrElse(Req.s3BucketConfig.fileName,
                           "page-" \o ToString(Now) \o ".pdf")
        key == IF Truthy(Req.s3BucketConfig.key)
               THEN Req.s3BucketConfig.key \o "/" \o fileName
               ELSE "pdfs/" \o fileName
        s1 == [ s EXCEPT !.bucketName = bucket, !.objectKey = key ]
    IN  IF ~skipS3
        THEN Await([ s1 EXCEPT !.puts = Append(@,
                        PutObjectCommand(bucket, key, PdfBody(s1.pdfBuffer),
                                         "application/pdf")) ],
                   "put", "putPdf")
        ELSE metricsStage(s1)

\* lines 244-249 on the way in: page.pdf resolved with bytes
afterPdf(s, bytes) ==
    LET s1 == [ s EXCEPT !.pdfBuffer = bytes, !.isPasswordProtected = FALSE ]
    IN  IF Truthy(Req.security.password) \/ Truthy(Req.security.ownerPassword)
        THEN IF protectPdfSkips(Req.security.password, Req.security.ownerPassword)
             THEN uploadStage(s1)
             ELSE Await(s1, "encryptPDF", "encrypt")
        ELSE uploadStage(s1)

\* treats a reported encryption error as fatal
afterProtect_ErrorIsFatal(s, lib) ==
    LET r == protectPdf(s.pdfBuffer, Req.security.password,
                        Req.security.ownerPassword, lib)
    IN  IF r.raised \/ r.error # Undefined
        THEN Finish(s, Thrown(r.error))
        ELSE uploadStage([ s EXCEPT !.pdfBuffer = r.buffer,
                                    !.isPasswordProtected = r.protected ])

\* lines 246-249 on the way out: protectPdf resolved
afterProtect(s, lib) ==
    LET r == protectPdf(s.pdfBuffer, Req.security.password,
                        Req.security.ownerPassword, lib)
    IN  IF r.raised
        THEN Finish(s, Thrown(r.error))
        ELSE uploadStage([ s EXCEPT !.pdfBuffer = r.buffer,
                                    !.isPasswordProtected = r.protected ])

\* the development server's sendResponse: what goes out on the wire for a
\* result of generatePdf and the bytes it carried
sendResponse(lambdaResponse, pdfBytes) ==
    IF skipS3 /\ IsSome(pdfBytes) /\ lambdaResponse.statusCode = 200
    THEN [ statusCode |-> 200, contentType |-> "application/pdf",
           body |-> PdfBody(pdfBytes[1]) ]
    ELSE [ statusCode |-> lambdaResponse.statusCode,
           contentType |-> lambdaResponse.headers.ContentType,
           body |-> JsonBody(lambdaResponse.body) ]

\* the store keeps the last object put under a bucket and key
StorePut(objects, cmd) ==
    { o \in objects : ~(o.Bucket = cmd.Bucket /\ o.Key = cmd.Key) } \cup {cmd}

(***************************************************************************)
(* Concurrent calls of generatePdf.  Each call has its own locals; the     *)
(* arrays made by setupPageErrorCollection are objects on the heap, and a  *)
(* call and the listeners of its page hold a reference to them.            *)
(***************************************************************************)
RunIds == {"a", "b"}

\* a call's locals: the reference `logs` is 0 before line 204; `emitted` is
\* what the call's own page has emitted
NoRun ==
    [ pc |-> "idle", requestId |-> Undefined, failOnErrors |-> FALSE,
      waitTime |-> 0, logs |-> 0,
      emitted |-> <<>>, statusCode |-> 0, errorCount |-> 0,
      pageErrors |-> None, consoleMessages |-> None,
      s3BucketConfig |-> [ bucket |-> Undefined, key |-> Undefined,
                           fileName |-> Undefined ] ]

EmptyCollection == [ pageErrors |-> <<>>, consoleMessages |-> <<>> ]

\* one pair of arrays for the whole module
setupPageErrorCollection_Shared(h) ==
    IF h = <<>> THEN [ heap |-> <<EmptyCollection>>, ref |-> 1 ]
    ELSE [ heap |-> h, ref |-> 1 ]

\* lines 92-93 and 116: two new arrays per call
setupPageErrorCollection(h) ==
    [ heap |-> Append(h, EmptyCollection), ref |-> Len(h) + 1 ]

(***************************************************************************)
(* Initial state.                                                          *)
(***************************************************************************)
NoBuffer == PlainPdf(Undefined)
NoMetrics == calculateCost(0, 0, 0, Undefined)
Rasterized == { PlainPdf("rendered page") }

Buffers == { PlainPdf("rendered page"), PlainPdf("other page"), PlainPdf("") }

ProtectInputs ==
    [ buffer : Buffers,
      userPassword : {Undefined, "", "secret123"},
      ownerPassword : {Undefined, "", "owner456"},
      lib : LibOutcomes ]

NoProtectIn ==
    [ buffer |-> NoBuffer, userPassword |-> Undefined,
      ownerPassword |-> Undefined, lib |-> "ok" ]

NoProtectOut ==
    [ called |-> FALSE,
      r |-> [ raised |-> FALSE, buffer |-> NoBuffer, protected |-> FALSE,
              libCalls |-> 0, error |-> Undefined ] ]

\* no stand-alone call of isValidUrl or calculateCost is made
NoUrlOut == [ called |-> FALSE, value |-> FALSE ]

NoCostIn ==
    [ durationMs |-> 0, memorySizeMB |-> 0, diskSizeMB |-> 0,
      region |-> Undefined ]

NoCostOut == [ called |-> FALSE, r |-> NoMetrics ]

NoPureCall ==
    /\ urlIn = Undefined
    /\ urlOut = NoUrlOut
    /\ costIn = NoCostIn
    /\ costOut = NoCostOut

InitRun ==
    /\ hpc = "idle"
    /\ pc = "none"
    /\ requestData = NoData
    /\ browser = "null"
    /\ calls = <<>>
    /\ settled = <<>>
    /\ navResponse = NoNav
    /\ pageErrors = <<>>
    /\ consoleMessages = <<>>
    /\ pdfBuffer = NoBuffer
    /\ isPasswordProtected = FALSE
    /\ bucketName = Undefined
    /\ objectKey = Undefined
    /\ metrics = NoMetrics
    /\ puts = <<>>
    /\ store = {}
    /\ startTime = 0
    /\ requestId = Undefined
    /\ ticks = 0
    /\ result = NoOutcome
    /\ response = NoOutcome
    /\ event = NoEvent
    /\ emitted = <<>>

Init ==
    /\ env \in Envs
    /\ InitRun
    /\ runs = [ r \in RunIds |-> NoRun ]
    /\ heap = <<>>
    /\ protectIn = NoProtectIn
    /\ protectOut = NoProtectOut
    /\ NoPureCall

\* line 16: event.httpMethod || event.requestContext?.http?.method
httpMethodOf(e) == OrElse(e.httpMethod, e.rcMethod)

\* lets GET through
methodNotAllowed_GetAllowed(httpMethod) == httpMethod \notin {"POST", "GET"}

\* line 25
methodNotAllowed(httpMethod) == httpMethod # "POST"

(***************************************************************************)
(* Actions of the handler.                                                 *)
(***************************************************************************)
Outcomes == {"ok", "throws"}

\* index.ts lines 14-48, up to the launch of the browser
HandleEvent(e) ==
    /\ hpc = "idle"
    /\ event' = e
    /\ LET httpMethod == httpMethodOf(e)
           authResult == authenticate(e.headers, env.API_KEY)
           parseResult == parseRequestBody(e.body, e.isBase64Encoded)
       IN  IF ~authResult.valid
           THEN /\ Commit([ S EXCEPT !.response = Resolved(authResult.response),
                                     !.hpc = "done" ])
                /\ UNCHANGED requestData
           ELSE IF methodNotAllowed(httpMethod)
           THEN /\ Commit([ S EXCEPT
                     !.response = Resolved(createResponse(405,
                         [EmptyPayload EXCEPT !.message =
                             "Method Not Allowed. Only POST requests are accepted."],
                         "POST")),
                     !.hpc = "done" ])
                /\ UNCHANGED requestData
           ELSE IF ~parseResult.success
           THEN /\ Commit(handlerFinally(S, parseResult.response))
                /\ UNCHANGED requestData
           ELSE /\ requestData' = parseResult.data
                /\ Commit([ S EXCEPT !.calls = Append(@, "launch"),
                                     !.hpc = "launching" ])
    /\ UNCHANGED <<env, ticks, protectIn, protectOut,
                   urlIn, urlOut, costIn, costOut, runs, heap, emitted>>

Handler == hpc = "idle" /\ \E e \in Events : HandleEvent(e)

\* puppeteer.launch settles; on success generatePdf starts
LaunchReturn(out, rnd) ==
    /\ hpc = "launching"
    /\ IF out = "ok"
       THEN Commit(genStart([ Settle(S, "launch:ok") EXCEPT
                                 !.browser = "open", !.hpc = "pipeline" ],
                            rnd))
       ELSE Commit(handlerFinally(Settle(S, "launch:throws"),
                                  handlerCatch("LaunchError")))
    /\ UNCHANGED <<env, requestData, ticks, protectIn, protectOut,
                   urlIn, urlOut, costIn, costOut, runs, heap, event, emitted>>

\* browser.close settles
CloseReturn(out) ==
    /\ hpc = "closing"
    /\ IF out = "ok"
       THEN Commit([ Settle(S, "browser.close:ok") EXCEPT
                        !.browser = "closed", !.hpc = "done",
                        !.response = Resolved(response.value) ])
       ELSE Commit([ Settle(S, "browser.close:throws") EXCEPT
                        !.hpc = "done",
                        !.response = Rejected("CloseError") ])
    /\ UNCHANGED <<env, requestData, ticks, protectIn, protectOut,
                   urlIn, urlOut, costIn, costOut, runs, heap, event, emitted>>

(***************************************************************************)
(* Actions of generatePdf: the settling of each awaited operation.         *)
(***************************************************************************)
NewPageReturn(out) ==
    /\ hpc = "pipeline" /\ pc = "newPage"
    /\ IF out = "ok" THEN Commit(afterNewPage(Settle(S, "newPage:ok")))
       ELSE Commit(Finish(Settle(S, "newPage:throws"), Thrown("NewPageError")))
    /\ UNCHANGED <<env, requestData, ticks, protectIn, protectOut,
                   urlIn, urlOut, costIn, costOut, runs, heap, event, emitted>>

InjectReturn(out) ==
    /\ hpc = "pipeline" /\ pc = "inject"
    /\ IF out = "ok"
       THEN Commit(afterInject(Settle(S, "evaluateOnNewDocument:ok")))
       ELSE Commit(Finish(Settle(S, "evaluateOnNewDocument:throws"),
                          Thrown("InjectError")))
    /\ UNCHANGED <<env, requestData, ticks, protectIn, protectOut,
                   urlIn, urlOut, costIn, costOut, runs, heap, event, emitted>>

GotoReturn(nav) ==
    /\ hpc = "pipeline" /\ pc = "goto"
    /\ IF nav.kind = "throw"
       THEN Commit(Finish(Settle(S, "goto:throws"), Thrown("TimeoutError")))
       ELSE Commit(afterGoto(Settle(S, "goto:ok"), nav))
    /\ UNCHANGED <<env, requestData, ticks, protectIn, protectOut,
                   urlIn, urlOut, costIn, costOut, runs, heap, event, emitted>>

WaitReturn ==
    /\ hpc = "pipeline" /\ pc = "wait"
    /\ Commit(afterWait(Settle(S, "setTimeout:ok")))
    /\ UNCHANGED <<env, requestData, ticks, protectIn, protectOut,
                   urlIn, urlOut, costIn, costOut, runs, heap, event, emitted>>

PdfReturn(out, bytes) ==
    /\ hpc = "pipeline" /\ pc = "pdf"
    /\ IF out = "ok" THEN Commit(afterPdf(Settle(S, "pdf:ok"), bytes))
       ELSE Commit(Finish(Settle(S, "pdf:throws"), Thrown("PdfError")))
    /\ UNCHANGED <<env, requestData, ticks, protectIn, protectOut,
                   urlIn, urlOut, costIn, costOut, runs, heap, event, emitted>>

EncryptReturn(lib) ==
    /\ hpc = "pipeline" /\ pc = "encrypt"
    /\ Commit(afterProtect(Settle(S, "encryptPDF:" \o lib), lib))
    /\ UNCHANGED <<env, requestData, ticks, protectIn, protectOut,
                   urlIn, urlOut, costIn, costOut, runs, heap, event, emitted>>

PutPdfReturn(out) ==
    /\ hpc = "pipeline" /\ pc = "putPdf"
    /\ IF out = "ok"
       THEN Commit(metricsStage([ Settle(S, "put:ok") EXCEPT
                !.store = StorePut(@, puts[Len(puts)]) ]))
       ELSE Commit(Finish(Settle(S, "put:throws"), Thrown("S3Error")))
    /\ UNCHANGED <<env, requestData, ticks, protectIn, protectOut,
                   urlIn, urlOut, costIn, costOut, runs, heap, event, emitted>>

PutProgressReturn(out) ==
    /\ hpc = "pipeline" /\ pc = "putProgress"
    /\ IF out = "ok"
       THEN LET s1 == [ Settle(S, "put:ok") EXCEPT
                            !.store = StorePut(@, puts[Len(puts)]) ]
            IN  Commit(Finish(s1, Returned(successResponse(s1))))
       ELSE Commit(Finish(Settle(S, "put:throws"), Thrown("S3Error")))
    /\ UNCHANGED <<env, requestData, ticks, protectIn, protectOut,
                   urlIn, urlOut, costIn, costOut, runs, heap, event, emitted>>

(***************************************************************************)
(* The environment: page events and the clock.                             *)
(***************************************************************************)
\* the operations during which the loaded page can emit events
PageLive == {"goto", "wait", "pdf", "encrypt", "putPdf", "putProgress"}
InFlight == {"newPage", "inject"} \cup PageLive

EventCount ==
    Len(consoleMessages)
    + Cardinality({ i \in 1..Len(pageErrors) : pageErrors[i].type = "pageerror" })

ConsoleEvent(type) ==
    /\ hpc = "pipeline" /\ pc \in PageLive
    /\ EventCount < MaxEvents
    /\ Commit(onConsole(S, type))
    /\ emitted' = Append(emitted, ConsoleMessage(type))
    /\ UNCHANGED <<env, requestData, ticks, protectIn, protectOut,
                   urlIn, urlOut, costIn, costOut, runs, heap, event>>

PageErrorEvent ==
    /\ hpc = "pipeline" /\ pc \in PageLive
    /\ EventCount < MaxEvents
    /\ Commit(onPageError(S))
    /\ emitted' = Append(emitted, PageError)
    /\ UNCHANGED <<env, requestData, ticks, protectIn, protectOut,
                   urlIn, urlOut, costIn, costOut, runs, heap, event>>

Tick ==
    /\ hpc = "pipeline" /\ pc \in InFlight
    /\ ticks < MaxTicks
    /\ ticks' = ticks + 1
    /\ UNCHANGED <<env, hpc, pc, requestData, browser, calls, settled,
                   navResponse, pageErrors,
                   consoleMessages, pdfBuffer, isPasswordProtected, bucketName,
                   objectKey, metrics, puts, store, startTime, requestId, result,
                   response, protectIn,
                   protectOut, urlIn, urlOut, costIn, costOut, event, emitted, runs, heap>>

Next ==
    \/ Handler
    \/ \E out \in Outcomes, rnd \in RandomSuffixes : LaunchReturn(out, rnd)
    \/ \E out \in Outcomes : CloseReturn(out)
    \/ \E out \in Outcomes : NewPageReturn(out)
    \/ \E out \in Outcomes : InjectReturn(out)
    \/ \E nav \in NavOutcomes : GotoReturn(nav)
    \/ WaitReturn
    \/ \E out \in Outcomes, bytes \in Rasterized : PdfReturn(out, bytes)
    \/ \E lib \in LibOutcomes : EncryptReturn(lib)
    \/ \E out \in Outcomes : PutPdfReturn(out)
    \/ \E out \in Outcomes : PutProgressReturn(out)
    \/ \E type \in ConsoleTypes : ConsoleEvent(type)
    \/ PageErrorEvent
    \/ Tick

Spec == Init /\ [][Next]_vars

(***************************************************************************)
(* A page that is silent while it loads and emits its events during the    *)
(* delay of line 226 only.                                                 *)
(***************************************************************************)
DelayedConsoleEvent(type) == pc = "wait" /\ ConsoleEvent(type)

DelayedPageErrorEvent == pc = "wait" /\ PageErrorEvent

NextDelay ==
    \/ Handler
    \/ \E out \in Outcomes, rnd \in RandomSuffixes : LaunchReturn(out, rnd)
    \/ \E out \in Outcomes : CloseReturn(out)
    \/ \E out \in Outcomes : NewPageReturn(out)
    \/ \E out \in Outcomes : InjectReturn(out)
    \/ \E nav \in NavOutcomes : GotoReturn(nav)
    \/ WaitReturn
    \/ \E out \in Outcomes, bytes \in Rasterized : PdfReturn(out, bytes)
    \/ \E lib \in LibOutcomes : EncryptReturn(lib)
    \/ \E out \in Outcomes : PutPdfReturn(out)
    \/ \E out \in Outcomes : PutProgressReturn(out)
    \/ \E type \in ConsoleTypes : DelayedConsoleEvent(type)
    \/ DelayedPageErrorEvent
    \/ Tick

SpecDelay == Init /\ [][NextDelay]_vars

(***************************************************************************)
(* protectPdf called on its own.                                           *)
(***************************************************************************)
DefaultEnv ==
    [ API_KEY |-> "k1", NODE_ENV |-> Undefined, SKIP_S3 |-> Undefined,
      PDF_BUCKET |-> Undefined, AWS_REGION |-> Undefined,
      AWS_LAMBDA_FUNCTION_MEMORY_SIZE |-> Undefined ]

InitProtect ==
    /\ env = DefaultEnv
    /\ InitRun
    /\ runs = [ r \in RunIds |-> NoRun ]
    /\ heap = <<>>
    /\ protectIn \in ProtectInputs
    /\ protectOut = NoProtectOut
    /\ NoPureCall

ProtectCall ==
    /\ ~protectOut.called
    /\ protectOut' = [ called |-> TRUE,
                       r |-> protectPdf(protectIn.buffer, protectIn.userPassword,
                                        protectIn.ownerPassword, protectIn.lib) ]
    /\ UNCHANGED <<env, hpc, pc, requestData, browser, calls, settled,
                   navResponse, pageErrors,
                   consoleMessages, pdfBuffer, isPasswordProtected, bucketName,
                   objectKey, metrics, puts, store, startTime, requestId, ticks,
                   result, response, protectIn,
                   urlIn, urlOut, costIn, costOut, event, emitted, runs, heap>>

NextProtect == ProtectCall

SpecProtect == InitProtect /\ [][NextProtect]_vars

(***************************************************************************)
(* isValidUrl and calculateCost called on their own, in either order.      *)
(***************************************************************************)
Regions == {"ap-south-1", "us-east-1", "", "toString", "constructor"}

CostInputs ==
    [ durationMs : {0, 1, 100, 1500, 30000},
      memorySizeMB : {128, 1024, 2048},
      diskSizeMB : {0, 512, 513, 10240},
      region : Regions ]

InitPure ==
    /\ env = DefaultEnv
    /\ InitRun
    /\ runs = [ r \in RunIds |-> NoRun ]
    /\ heap = <<>>
    /\ protectIn = NoProtectIn
    /\ protectOut = NoProtectOut
    /\ urlIn \in UrlStrings
    /\ urlOut = NoUrlOut
    /\ costIn \in CostInputs
    /\ costOut = NoCostOut

IsValidUrlCall ==
    /\ ~urlOut.called
    /\ urlOut' = [ called |-> TRUE, value |-> isValidUrl(urlIn) ]
    /\ UNCHANGED <<env, hpc, pc, requestData, browser, calls, settled,
                   navResponse, pageErrors,
                   consoleMessages, pdfBuffer, isPasswordProtected, bucketName,
                   objectKey, metrics, puts, store, startTime, requestId, ticks,
                   result, response, protectIn, protectOut, urlIn, costIn,
                   costOut, event, emitted, runs, heap>>

CalculateCostCall ==
    /\ ~costOut.called
    /\ costOut' = [ called |-> TRUE,
                    r |-> calculateCost(costIn.durationMs, costIn.memorySizeMB,
                                        costIn.diskSizeMB, costIn.region) ]
    /\ UNCHANGED <<env, hpc, pc, requestData, browser, calls, settled,
                   navResponse, pageErrors,
                   consoleMessages, pdfBuffer, isPasswordProtected, bucketName,
                   objectKey, metrics, puts, store, startTime, requestId, ticks,
                   result, response, protectIn, protectOut, urlIn, urlOut,
                   costIn, event, emitted, runs, heap>>

NextPure == IsValidUrlCall \/ CalculateCostCall

SpecPure == InitPure /\ [][NextPure]_vars

(***************************************************************************)
(* Concurrent calls of generatePdf, interleaved at their suspension        *)
(* points.  A call reads its logs through its own reference, and the       *)
(* listeners of its page write through the reference they closed over.     *)
(***************************************************************************)
single ==
    <<env, hpc, pc, requestData, browser, calls, settled, navResponse,
      pageErrors, consoleMessages, pdfBuffer, isPasswordProtected, bucketName,
      objectKey, metrics, puts, store, startTime, requestId, ticks, result,
      response, protectIn,
      protectOut, urlIn, urlOut, costIn, costOut, event, emitted>>

RunOptions == [ failOnErrors : BOOLEAN, waitTime : {0, 500} ]

\* generatePdf returns: lines 217-222, 230-234, 305-321
runReturn(run, coll, statusCode) ==
    [ run EXCEPT
        !.pc = "returned",
        !.statusCode = statusCode,
        !.pageErrors = IF statusCode = 200 /\ Len(coll.pageErrors) = 0
                       THEN None ELSE Some(coll.pageErrors),
        !.consoleMessages = IF statusCode = 422
                            THEN Some(coll.consoleMessages) ELSE None ]

\* generatePdf throws
runThrow(run) == [ run EXCEPT !.pc = "thrown" ]

\* lines 229-237
runThreshold(run, coll) ==
    IF thresholdHit(coll.pageErrors, run.failOnErrors)
    THEN runReturn(run, coll, 422)
    ELSE [ run EXCEPT !.pc = "pdf" ]

RECURSIVE TotalEmitted(_)
TotalEmitted(R) ==
    IF R = {} THEN 0
    ELSE LET r == CHOOSE x \in R : TRUE
         IN  Len(runs[r].emitted) + TotalEmitted(R \ {r})

\* lines 186-202
RunCall(r, opts, rnd) ==
    /\ runs[r].pc = "idle"
    /\ runs' = [ runs EXCEPT ![r] = [ NoRun EXCEPT
                     !.pc = "newPage",
                     !.requestId = newRequestId(Now, rnd),
                     !.failOnErrors = opts.failOnErrors,
                     !.waitTime = opts.waitTime ] ]
    /\ UNCHANGED <<heap, single>>

\* lines 202-209
RunNewPageReturn(r, out) ==
    /\ runs[r].pc = "newPage"
    /\ IF out = "ok"
       THEN LET made == setupPageErrorCollection(heap)
            IN  /\ heap' = made.heap
                /\ runs' = [ runs EXCEPT ![r].logs = made.ref,
                                         ![r].pc = "inject" ]
       ELSE /\ runs' = [ runs EXCEPT ![r] = runThrow(@) ]
            /\ UNCHANGED heap
    /\ UNCHANGED single

\* lines 206-214
RunInjectReturn(r, out) ==
    /\ runs[r].pc = "inject"
    /\ runs' = [ runs EXCEPT ![r] = IF out = "ok" THEN [ @ EXCEPT !.pc = "goto" ]
                                    ELSE runThrow(@) ]
    /\ UNCHANGED <<heap, single>>

\* lines 211-237
RunGotoReturn(r, nav) ==
    /\ runs[r].pc = "goto"
    /\ runs' = [ runs EXCEPT ![r] =
                   IF nav.kind = "throw" THEN runThrow(@)
                   ELSE IF navigationFailed(nav)
                   THEN runReturn(@, heap[@.logs], 502)
                   ELSE IF @.waitTime # 0 THEN [ @ EXCEPT !.pc = "wait" ]
                   ELSE runThreshold(@, heap[@.logs]) ]
    /\ UNCHANGED <<heap, single>>

\* lines 226-237
RunWaitReturn(r) ==
    /\ runs[r].pc = "wait"
    /\ runs' = [ runs EXCEPT ![r] = runThreshold(@, heap[@.logs]) ]
    /\ UNCHANGED <<heap, single>>

\* lines 237-265
RunPdfReturn(r, out) ==
    /\ runs[r].pc = "pdf"
    /\ runs' = [ runs EXCEPT ![r] = IF out = "ok" THEN [ @ EXCEPT !.pc = "putPdf" ]
                                    ELSE runThrow(@) ]
    /\ UNCHANGED <<heap, single>>

\* lines 257-302: the progress record takes errorCount from the live array
RunPutPdfReturn(r, out) ==
    /\ runs[r].pc = "putPdf"
    /\ runs' = [ runs EXCEPT ![r] =
                   IF out = "ok"
                   THEN [ @ EXCEPT !.pc = "putProgress",
                                   !.errorCount =
                                       Len(heap[runs[r].logs].pageErrors) ]
                   ELSE runThrow(@) ]
    /\ UNCHANGED <<heap, single>>

\* lines 295-323
RunPutProgressReturn(r, out) ==
    /\ runs[r].pc = "putProgress"
    /\ runs' = [ runs EXCEPT ![r] = IF out = "ok"
                                    THEN runReturn(@, heap[@.logs], 200)
                                    ELSE runThrow(@) ]
    /\ UNCHANGED <<heap, single>>

\* the page of call r emits an event: its listeners run (lines 95-114)
RunPageEvent(r, ev) ==
    /\ runs[r].pc \in PageLive
    /\ TotalEmitted(RunIds) < MaxEvents
    /\ heap' = [ heap EXCEPT ![runs[r].logs] =
                   IF ev.kind = "console" THEN onConsole(@, ev.type)
                   ELSE onPageError(@) ]
    /\ runs' = [ runs EXCEPT ![r].emitted = Append(@, ev) ]
    /\ UNCHANGED single

PageEvents == { ConsoleMessage(type) : type \in ConsoleTypes } \cup {PageError}

NextRuns ==
    \E r \in RunIds :
        \/ \E opts \in RunOptions, rnd \in RandomSuffixes : RunCall(r, opts, rnd)
        \/ \E out \in Outcomes : RunNewPageReturn(r, out)
        \/ \E out \in Outcomes : RunInjectReturn(r, out)
        \/ \E nav \in NavOutcomes : RunGotoReturn(r, nav)
        \/ RunWaitReturn(r)
        \/ \E out \in Outcomes : RunPdfReturn(r, out)
        \/ \E out \in Outcomes : RunPutPdfReturn(r, out)
        \/ \E out \in Outcomes : RunPutProgressReturn(r, out)
        \/ \E ev \in PageEvents : RunPageEvent(r, ev)

InitRuns ==
    /\ env = DefaultEnv
    /\ InitRun
    /\ runs = [ r \in RunIds |-> NoRun ]
    /\ heap = <<>>
    /\ protectIn = NoProtectIn
    /\ protectOut = NoProtectOut
    /\ NoPureCall

SpecRuns == InitRuns /\ [][NextRuns]_vars

(***************************************************************************)
(* Concurrent calls of generatePdf on silent pages, with the clock and     *)
(* the random source of line 187.                                          *)
(***************************************************************************)
RunTick ==
    /\ ticks < MaxTicks
    /\ ticks' = ticks + 1
    /\ UNCHANGED <<env, hpc, pc, requestData, browser, calls, settled,
                   navResponse, pageErrors,
                   consoleMessages, pdfBuffer, isPasswordProtected, bucketName,
                   objectKey, metrics, puts, store, startTime, requestId, result,
                   response, protectIn, protectOut, urlIn, urlOut, costIn,
                   costOut, event, emitted, runs, heap>>

NextIds ==
    \/ \E r \in RunIds :
        \/ \E opts \in RunOptions, rnd \in RandomDraws : RunCall(r, opts, rnd)
        \/ \E out \in Outcomes : RunNewPageReturn(r, out)
        \/ \E out \in Outcomes : RunInjectReturn(r, out)
        \/ \E nav \in NavOutcomes : RunGotoReturn(r, nav)
        \/ RunWaitReturn(r)
        \/ \E out \in Outcomes : RunPdfReturn(r, out)
        \/ \E out \in Outcomes : RunPutPdfReturn(r, out)
        \/ \E out \in Outcomes : RunPutProgressReturn(r, out)
    \/ RunTick

SpecIds == InitRuns /\ [][NextIds]_vars

(***************************************************************************)
(* Properties.  The definitions below state what is claimed of the         *)
(* program in their own terms; they do not use the operators that model    *)
(* the code's decisions.                                                   *)
(***************************************************************************)
Range(seq) == { seq[i] : i \in 1..Len(seq) }

\* the candidates that are absolute http or https URLs
HttpUrls == { "https://example.com", "http://localhost:3000/report" }

\* generatePdf has been called
GenCalled == pc # "none"

ResultStatus == IF result.kind = "return" THEN result.value.statusCode ELSE 0
ResultBody == result.value.body

PageOps == {"newPage", "on:console", "on:pageerror", "evaluateOnNewDocument",
            "goto", "setTimeout", "pdf", "encryptPDF"}

\* C1: a request whose pageUrl is not an absolute http/https URL ends
\* generatePdf with a 400 response, and in that run no page is opened, nothing
\* is navigated to or rasterized, and nothing is uploaded.
C1_InvalidUrlIs400 ==
    (GenCalled /\ requestData.present /\ Req.pageUrl \notin HttpUrls)
    => /\ pc = "returned"
       /\ ResultStatus = 400
       /\ Range(calls) \cap (PageOps \cup {"put"}) = {}
       /\ puts = <<>>
       /\ store = {}

C1_Witness ==
    /\ requestData.present
    /\ Req.pageUrl = "javascript:alert(1)"
    /\ ResultStatus = 400
    /\ hpc = "done"

\* the navigation gave no response or a status outside 200..299
NavFailed ==
    \/ navResponse.kind = "null"
    \/ navResponse.kind = "response"
       /\ navResponse.status \notin 200..299

\* C2: when navigation returns null or a non-ok response, generatePdf ends
\* with a 502 response carrying the error log captured so far, the status and
\* the status text; page.pdf is never called and nothing is uploaded.
C2_NavigationFailureIs502 ==
    NavFailed
    => /\ pc = "returned"
       /\ ResultStatus = 502
       /\ ResultBody.pageErrors = Some(pageErrors)
       /\ ResultBody.status = IF navResponse.kind = "null" THEN None
                              ELSE Some(navResponse.status)
       /\ ResultBody.statusText = navResponse.statusText
       /\ "pdf" \notin Range(calls)
       /\ "put" \notin Range(calls)
       /\ puts = <<>>

C2_Witness ==
    /\ navResponse.kind = "response"
    /\ navResponse.status = 404
    /\ Len(pageErrors) > 0
    /\ ResultStatus = 502
    /\ hpc = "done"

\* the step in which generatePdf evaluates the error threshold: the extra wait
\* ends, or a successful navigation is not followed by a wait
ThresholdStep ==
    /\ hpc = "pipeline"
    /\ \/ pc = "wait" /\ pc' # "wait"
       \/ /\ pc = "goto" /\ pc' # "goto"
          /\ navResponse'.kind = "response"
          /\ navResponse'.status \in 200..299
          /\ Req.pdfOptions.waitTime = 0

\* C3: when navigation succeeded, failOnErrors is set and the error log is
\* non-empty at the threshold check, generatePdf ends with a 422 response
\* holding both logs; page.pdf is never called and nothing is uploaded.
C3_ErrorThresholdIs422 ==
    /\ [][ (ThresholdStep /\ Req.pdfOptions.failOnErrors /\ Len(pageErrors) > 0)
           => /\ pc' = "returned"
              /\ result'.kind = "return"
              /\ result'.value.statusCode = 422
              /\ result'.value.body.pageErrors = Some(pageErrors)
              /\ result'.value.body.consoleMessages = Some(consoleMessages) ]_vars
    /\ [](ResultStatus = 422
          => /\ "pdf" \notin Range(calls)
             /\ "put" \notin Range(calls)
             /\ puts = <<>>)

C3_Witness ==
    /\ ResultStatus = 422
    /\ Req.pdfOptions.failOnErrors
    /\ Len(pageErrors) > 0
    /\ Len(consoleMessages) > 0
    /\ "setTimeout:ok" \in Range(settled)
    /\ hpc = "done"

\* the path prefix and the file names a request can get
PathPrefix ==
    IF Req.s3BucketConfig.key = Undefined THEN "pdfs" ELSE Req.s3BucketConfig.key

FileNames ==
    IF Req.s3BucketConfig.fileName = Undefined
    THEN { "page-" \o ToString(t * TickMs) \o ".pdf" : t \in 0..MaxTicks }
    ELSE { Req.s3BucketConfig.fileName }

\* C4: a successful run with upload-skip mode off issues exactly two uploads
\* to one bucket: first the PDF at {pathPrefix}/{fileName} with content type
\* application/pdf, then the progress record at {pathPrefix}/progress.json;
\* the response's key is {pathPrefix}/{fileName}.
C4_TwoUploadsInOrder ==
    (ResultStatus = 200 /\ env.SKIP_S3 # "true")
    => /\ Len(puts) = 2
       /\ Count(calls, "put") = 2
       /\ puts[1].ContentType = "application/pdf"
       /\ IsSome(puts[1].Body.pdf)
       /\ \E f \in FileNames : puts[1].Key = PathPrefix \o "/" \o f
       /\ puts[2].Key = PathPrefix \o "/progress.json"
       /\ IsSome(puts[2].Body.json)
       /\ puts[2].Bucket = puts[1].Bucket
       /\ ResultBody.key = puts[1].Key
       /\ ResultBody.bucket = puts[1].Bucket

C4_Witness ==
    /\ ResultStatus = 200
    /\ env.SKIP_S3 # "true"
    /\ Req.s3BucketConfig.key = "reports"
    /\ Req.s3BucketConfig.fileName = Undefined
    /\ Len(puts) = 2
    /\ hpc = "done"

\* the run acquired a page: browser.newPage resolved
PageAcquired == "newPage:ok" \in Range(settled)

\* C5: on every exit path of a run that acquired a page the page's close() is
\* invoked exactly once, and it is never invoked on a run that ended at URL
\* validation.
C5_PageClosedExactlyOnce ==
    hpc = "done"
    => Count(calls, "page.close") = (IF PageAcquired THEN 1 ELSE 0)

\* C6: the progress record written to the store never holds the caller's
\* password: whatever password the request carries, the record's security
\* part is the same.
C6_ProgressHidesPassword ==
    \A i \in 1..Len(puts) :
        IsSome(puts[i].Body.json)
        => /\ puts[i].Body.json[1].security.password
                \notin {"secret123", "owner456"}
           /\ "security" \notin DOMAIN puts[i].Body.json[1].request

\* the encryption library was called and failed
EncryptionFailed == "encryptPDF:throws" \in Range(settled)

NoPassword(p) == p = Undefined \/ p = ""

\* C8: protectPdf never raises, and whenever the library cannot encrypt it
\* returns the input bytes unmodified with protected = false.
C8_ProtectNeverRaises ==
    protectOut.called
    => /\ ~protectOut.r.raised
       /\ protectIn.lib = "throws"
          => /\ protectOut.r.buffer = protectIn.buffer
             /\ ~protectOut.r.protected

C8_Witness ==
    /\ protectOut.called
    /\ protectIn.lib = "throws"
    /\ protectIn.userPassword = "secret123"
    /\ protectOut.r.libCalls = 1

\* C9: protectPdf called with neither a user password nor an owner password
\* returns the input bytes unchanged with protected = false and does not call
\* the encryption library.
C9_NoPasswordIsIdentity ==
    (protectOut.called /\ NoPassword(protectIn.userPassword)
                       /\ NoPassword(protectIn.ownerPassword))
    => /\ protectOut.r.buffer = protectIn.buffer
       /\ ~protectOut.r.protected
       /\ protectOut.r.libCalls = 0
       /\ ~protectOut.r.raised

C9_Witness ==
    /\ protectOut.called
    /\ protectIn.userPassword = ""
    /\ protectIn.ownerPassword = Undefined
    /\ protectIn.lib = "ok"

\* C10: when page.goto throws (a navigation timeout), the request ends with
\* a 502 response carrying the error log, with no PDF produced and nothing
\* uploaded.
C10_NavigationThrowIs502 ==
    ("goto:throws" \in Range(settled) /\ hpc = "done" /\ response.kind = "resolve")
    => /\ response.value.statusCode = 502
       /\ IsSome(response.value.body.pageErrors)
       /\ "pdf" \notin Range(calls)
       /\ puts = <<>>

\* the infrastructure failures: how the operation settled, the error it
\* threw, and whether it was awaited inside generatePdf
InfraFailures ==
    { [ settled |-> "launch:throws", error |-> "LaunchError", inPipeline |-> FALSE ],
      [ settled |-> "newPage:throws", error |-> "NewPageError", inPipeline |-> TRUE ],
      [ settled |-> "put:throws", error |-> "S3Error", inPipeline |-> TRUE ] }

\* C11: an exception thrown by the browser launch, by newPage or by either
\* upload leaves generatePdf as the same exception, and the handler's catch
\* block turns it into a 500 response with message "Failed to generate or
\* upload PDF" and the error's text; the stack is in the response iff
\* NODE_ENV is "development".  That response is what the handler returns; the
\* handler can end otherwise only when closing the browser fails as well.
C11_InfrastructureFailureIs500 ==
    \A f \in InfraFailures :
        f.settled \in Range(settled)
        => /\ hpc \in {"closing", "done"}
           /\ f.inPipeline => result.kind = "throw" /\ result.error = f.error
           /\ ~f.inPipeline => result.kind = "none" /\ pc = "none"
           /\ response.kind \in {"pending", "resolve"}
              => /\ response.value.statusCode = 500
                 /\ response.value.body.message = "Failed to generate or upload PDF"
                 /\ response.value.body.error = f.error
                 /\ response.value.body.stack # Undefined
                    <=> env.NODE_ENV = "development"
           /\ response.kind \notin {"pending", "resolve"}
              => /\ response.kind = "reject"
                 /\ "browser.close:throws" \in Range(settled)
           /\ hpc = "done" /\ "browser.close:throws" \notin Range(settled)
              => response.kind = "resolve"

C11_Witness ==
    /\ "put:throws" \in Range(settled)
    /\ Len(puts) = 2
    /\ result.kind = "throw"
    /\ hpc = "done"
    /\ response.kind = "resolve"
    /\ response.value.statusCode = 500
    /\ response.value.body.stack = Undefined

\* operation a was issued before operation b
Before(a, b) ==
    \E j \in 1..Len(calls) :
        calls[j] = b /\ \E i \in 1..(j - 1) : calls[i] = a

\* no operation of the set was issued after operation b
NoneAfter(ops, b) ==
    \A j \in 1..Len(calls) :
        calls[j] = b => \A i \in (j + 1)..Len(calls) : calls[i] \notin ops

Preparations == {"on:console", "on:pageerror", "evaluateOnNewDocument"}

\* C12: in every run that opens a page both listeners are attached and
\* evaluateOnNewDocument is called once the page exists, and page.goto is
\* called only after the listeners were attached and evaluateOnNewDocument
\* has completed; no page event arrives before the listeners are attached.
C12_PreparedBeforeNavigation ==
    /\ PageAcquired => Preparations \subseteq Range(calls)
    /\ "goto" \in Range(calls)
       => /\ \A p \in Preparations : Before(p, "goto")
          /\ NoneAfter(Preparations, "goto")
          /\ "evaluateOnNewDocument:ok" \in Range(settled)
          /\ Count(calls, "goto") = 1
    /\ emitted # <<>> => {"on:console", "on:pageerror"} \subseteq Range(calls)

C12_Witness ==
    /\ "goto:ok" \in Range(settled)
    /\ Len(emitted) = 2
    /\ ResultStatus = 200
    /\ hpc = "done"

\* the log entry an emitted event is recorded as
EntryOf(ev) ==
    IF ev.kind = "console"
    THEN [ type |-> ev.type, text |-> ev.text, location |-> ev.location,
           stack |-> Undefined ]
    ELSE [ type |-> "pageerror", text |-> ev.text, location |-> Undefined,
           stack |-> ev.stack ]

IsConsole(ev) == ev.kind = "console"
IsError(ev) == ev.kind = "pageerror" \/ (ev.kind = "console" /\ ev.type = "error")

\* the entries of the events of seq, in order
RECURSIVE EntriesOf(_)
EntriesOf(seq) ==
    IF seq = <<>> THEN <<>>
    ELSE <<EntryOf(Head(seq))>> \o EntriesOf(Tail(seq))

IsPrefix(a, b) == Len(a) <= Len(b) /\ SubSeq(b, 1, Len(a)) = a

\* C13: after any sequence of page events consoleMessages holds exactly the
\* console events, in arrival order, and pageErrors holds exactly the console
\* events of type "error" and the pageerror events (typed "pageerror", with
\* message and stack), in arrival order; both lists only grow at the end, and
\* a console event that is not an error never reaches pageErrors.
C13_LogsAreTheEventsInOrder ==
    /\ [](/\ consoleMessages = EntriesOf(SelectSeq(emitted, IsConsole))
          /\ pageErrors = EntriesOf(SelectSeq(emitted, IsError))
          /\ \A i \in 1..Len(pageErrors) :
                pageErrors[i].type \in {"error", "pageerror"})
    /\ [][/\ IsPrefix(consoleMessages, consoleMessages')
          /\ IsPrefix(pageErrors, pageErrors')]_vars

C13_Witness ==
    /\ Len(emitted) = 2
    /\ emitted[1].kind = "pageerror"
    /\ emitted[2].kind = "console" /\ emitted[2].type = "log"
    /\ Len(pageErrors) = 1
    /\ Len(consoleMessages) = 1
    /\ hpc = "done"

\* the navigation gave a response with a status in 200..299
NavSucceeded ==
    navResponse.kind = "response" /\ navResponse.status \in 200..299

\* C14: the delay of waitTime is started only after a successful navigation
\* and never after a failed one, and with waitTime set it is over before the
\* error threshold is evaluated and before page.pdf is called; so when the
\* page emits an error during the delay and failOnErrors is set, the run ends
\* with 422 and nothing is rasterized.
C14_DelayPrecedesThreshold ==
    /\ "setTimeout" \in Range(calls)
       => /\ NavSucceeded
          /\ Req.pdfOptions.waitTime > 0
          /\ Before("goto", "setTimeout")
          /\ Count(calls, "setTimeout") = 1
    /\ NavFailed \/ "goto:throws" \in Range(settled)
       => "setTimeout" \notin Range(calls)
    /\ (NavSucceeded /\ Req.pdfOptions.waitTime > 0)
       => /\ "setTimeout" \in Range(calls)
          /\ ("pdf" \in Range(calls) \/ ResultStatus = 422)
             => "setTimeout:ok" \in Range(settled)
          /\ "pdf" \in Range(calls) => Before("setTimeout", "pdf")
    /\ (Len(pageErrors) > 0 /\ Req.pdfOptions.failOnErrors /\ pc # "wait")
       => /\ ResultStatus = 422
          /\ ResultBody.pageErrors = Some(pageErrors)
          /\ "pdf" \notin Range(calls)

C14_Witness ==
    /\ "setTimeout:ok" \in Range(settled)
    /\ Len(emitted) > 0
    /\ emitted[1].kind = "pageerror"
    /\ ResultStatus = 422
    /\ hpc = "done"

\* the operations that are awaited (attaching a listener is synchronous)
IsAwaited(op) == op \notin {"on:console", "on:pageerror"}

\* the place of each operation in the order of the stages
Rank(op) ==
    CASE op = "launch" -> 0
      [] op = "newPage" -> 1
      [] op = "on:console" -> 2
      [] op = "on:pageerror" -> 3
      [] op = "evaluateOnNewDocument" -> 4
      [] op = "goto" -> 5
      [] op = "setTimeout" -> 6
      [] op = "pdf" -> 7
      [] op = "encryptPDF" -> 8
      [] op = "put" -> 9
      [] op = "browser.close" -> 10
      [] OTHER -> 11

CostComputed == metrics.region # Undefined

\* C15: the operations of a run are issued in the order newPage, listeners,
\* injection, navigation, wait, rasterization, encryption, artifact upload,
\* progress upload (a stage may be absent, none is repeated or out of place),
\* after the URL was validated; each awaited operation has settled before the
\* next is issued, so at most one is in flight; the cost is computed after
\* the artifact upload and before the progress upload, and the response
\* comes last.
C15_StagesAreSequential ==
    LET awaited == SelectSeq(calls, IsAwaited)
    IN  /\ Len(awaited) - Len(settled) \in {0, 1}
        /\ \A k \in 1..Len(settled) :
              settled[k] \in {awaited[k] \o ":ok", awaited[k] \o ":throws"}
        /\ \A i \in 1..(Len(calls) - 1) :
              \/ Rank(calls[i]) < Rank(calls[i + 1])
              \/ calls[i] = "put" /\ calls[i + 1] = "put"
        /\ Count(calls, "put") <= 2
        /\ "newPage" \in Range(calls)
           => requestData.present /\ Req.pageUrl \in HttpUrls
        /\ CostComputed
           => /\ "pdf:ok" \in Range(settled)
              /\ env.SKIP_S3 # "true" => Count(settled, "put:ok") >= 1
        /\ Count(calls, "put") = 2 => CostComputed
        /\ result.kind = "return"
           => /\ Len(SelectSeq(awaited, LAMBDA op : op # "browser.close"))
                 = Len(SelectSeq(settled,
                       LAMBDA o : o \notin {"browser.close:ok",
                                            "browser.close:throws"}))
              /\ ResultStatus = 200 => CostComputed

C15_Witness ==
    /\ SelectSeq(calls, IsAwaited)
         = <<"launch", "newPage", "evaluateOnNewDocument", "goto", "setTimeout",
             "pdf", "encryptPDF", "put", "put", "browser.close">>
    /\ ResultStatus = 200
    /\ hpc = "done"

\* the log lists a call should hold: those of its own page's events
OwnErrors(r) == EntriesOf(SelectSeq(runs[r].emitted, IsError))
OwnConsole(r) == EntriesOf(SelectSeq(runs[r].emitted, IsConsole))

\* C16: when calls of generatePdf interleave, each call's log lists hold the
\* events of its own page and nothing else, no two calls use the same lists,
\* a call's 422, its returned pageErrors and its errorCount come from its own
\* page's events only, and an event of one call's page changes nothing that
\* belongs to another call.
C16_RunsShareNoLogs ==
    /\ [](\A r \in RunIds :
            /\ runs[r].logs # 0
               => /\ heap[runs[r].logs].pageErrors = OwnErrors(r)
                  /\ heap[runs[r].logs].consoleMessages = OwnConsole(r)
            /\ \A q \in RunIds \ {r} :
                  runs[r].logs # 0 => runs[q].logs # runs[r].logs
            /\ runs[r].statusCode = 422
               => /\ OwnErrors(r) # <<>>
                  /\ runs[r].pageErrors = Some(OwnErrors(r))
                  /\ runs[r].consoleMessages = Some(OwnConsole(r))
            /\ runs[r].statusCode = 502
               => runs[r].pageErrors = Some(OwnErrors(r))
            /\ runs[r].statusCode = 200
               => /\ runs[r].pageErrors = IF OwnErrors(r) = <<>> THEN None
                                          ELSE Some(OwnErrors(r))
                  /\ runs[r].errorCount <= Len(OwnErrors(r)))
    /\ [][\A q \in RunIds :
            runs'[q].emitted # runs[q].emitted
            => \A r \in RunIds \ {q} :
                  /\ runs'[r] = runs[r]
                  /\ runs[r].logs # 0
                     => heap'[runs[r].logs] = heap[runs[r].logs]]_vars

C16_Witness ==
    /\ runs["a"].statusCode = 422
    /\ runs["a"].logs = 2
    /\ runs["b"].logs = 1
    /\ runs["b"].failOnErrors
    /\ runs["b"].pc = "pdf"
    /\ runs["b"].emitted = <<>>

\* the run has reached the upload stage: the page was rasterized and the
\* encryption, if any, is over
AtUploadStage ==
    /\ "pdf:ok" \in Range(settled)
    /\ pc # "encrypt"

\* C17: with SKIP_S3 = "true" no upload is ever issued, neither the artifact
\* nor the progress record; a run that reaches the upload stage still computes
\* the key and the metrics and returns 200 carrying the PDF bytes, which the
\* development server sends as application/pdf.
C17_SkipModeUploadsNothing ==
    env.SKIP_S3 = "true"
    => /\ "put" \notin Range(calls)
       /\ puts = <<>>
       /\ store = {}
       /\ AtUploadStage
          => /\ pc = "returned"
             /\ ResultStatus = 200
             /\ \E f \in FileNames : ResultBody.key = PathPrefix \o "/" \o f
             /\ ResultBody.bucket # Undefined
             /\ CostComputed
             /\ ResultBody.metrics
                  = Some([ durationMs |-> metrics.durationMs,
                           totalCostUSD |-> metrics.breakdown.totalCost ])
             /\ result.value.pdfBuffer = Some(pdfBuffer)
             /\ pdfBuffer.data = "rendered page"
             /\ sendResponse(result.value, result.value.pdfBuffer)
                  = [ statusCode |-> 200, contentType |-> "application/pdf",
                      body |-> [ pdf |-> Some(pdfBuffer), json |-> None ] ]

C17_Witness ==
    /\ env.SKIP_S3 = "true"
    /\ ResultStatus = 200
    /\ isPasswordProtected
    /\ Req.s3BucketConfig.key = "reports"
    /\ calls = <<"launch", "newPage", "on:console", "on:pageerror",
                 "evaluateOnNewDocument", "goto", "pdf", "encryptPDF",
                 "browser.close">>
    /\ hpc = "done"

\* the spellings of the API key header's name
ApiKeyHeaderNames == {"x-api-key", "X-API-Key", "X-Api-Key"}

KeyConfigured == env.API_KEY # Undefined /\ env.API_KEY # ""

\* the event carries the configured key
CarriesKey ==
    /\ KeyConfigured
    /\ \E h \in event.headers : h[1] \in ApiKeyHeaderNames /\ h[2] = env.API_KEY

\* an event has been handled
Handled == hpc # "idle"

\* the handler answered with a rejection of authenticate
AuthRejected ==
    /\ response.kind = "resolve"
    /\ \/ /\ response.value.statusCode = 401
          /\ response.value.body.message = "Unauthorized. Valid API key required."
       \/ /\ response.value.statusCode = 500
          /\ response.value.body.message
               = "Server configuration error: API_KEY not set"

\* nothing outside the handler was touched
NoSideEffect ==
    /\ calls = <<>>
    /\ browser = "null"
    /\ puts = <<>>
    /\ store = {}
    /\ pc = "none"

\* C18: an event gets past authentication iff the server's API key is
\* configured and the event has an x-api-key header, in any letter case, with
\* exactly that value; any other event is answered at once with 401, or with
\* 500 when the key is not configured, whatever its method and body, and
\* nothing is launched, opened or uploaded for it.
C18_OnlyTheKeyGetsPast ==
    Handled
    => /\ CarriesKey <=> ~AuthRejected
       /\ ~CarriesKey
          => /\ hpc = "done"
             /\ response.value.statusCode = IF KeyConfigured THEN 401 ELSE 500
             /\ NoSideEffect

C18_Witness ==
    /\ Handled
    /\ event.headers = {<<"X-API-Key", "k1">>}
    /\ env.API_KEY = "k1"
    /\ hpc = "launching"

\* the event's HTTP method: httpMethod, or requestContext.http.method when
\* httpMethod is absent
Method ==
    IF event.httpMethod # Undefined THEN event.httpMethod ELSE event.rcMethod

\* C19: an authenticated event whose method is not POST is answered with 405
\* and the header Allow: POST, whatever its body; its body is not parsed and
\* nothing is launched.  An authenticated event whose method is POST, given
\* in either place, is never answered with 405.
C19_NonPostIs405 ==
    (Handled /\ CarriesKey)
    => /\ Method # "POST"
          => /\ hpc = "done"
             /\ response.kind = "resolve"
             /\ response.value.statusCode = 405
             /\ response.value.headers.Allow = "POST"
             /\ response.value.body.message
                  = "Method Not Allowed. Only POST requests are accepted."
             /\ requestData = NoData
             /\ NoSideEffect
       /\ Method = "POST" => response.value.statusCode # 405

C19_Witness ==
    /\ Handled
    /\ CarriesKey
    /\ event.httpMethod = "GET"
    /\ event.body.raw = "text"
    /\ ~event.body.json
    /\ response.value.statusCode = 405

\* the body is a non-empty text that, decoded as the event says, is not JSON
BodyIsNotJson ==
    /\ event.body.raw = "text"
    /\ \/ ~event.body.json
       \/ event.body.base64 # event.isBase64Encoded

\* C20: an authenticated POST whose body, after the base64 decoding the
\* event asks for, is not valid JSON is answered with 400 "Invalid JSON in
\* request body", and no browser is launched, no page opened and nothing
\* uploaded.
C20_InvalidJsonIs400 ==
    (Handled /\ CarriesKey /\ Method = "POST" /\ BodyIsNotJson)
    => /\ hpc = "done"
       /\ response.kind = "resolve"
       /\ response.value.statusCode = 400
       /\ response.value.body.message = "Invalid JSON in request body"
       /\ response.value.body.error # Undefined
       /\ NoSideEffect

C20_Witness ==
    /\ Handled
    /\ CarriesKey
    /\ Method = "POST"
    /\ event.body.json
    /\ event.body.base64
    /\ ~event.isBase64Encoded
    /\ response.value.statusCode = 400

\* the request names no page: pageUrl is absent or the empty string
NoPageUrl == requestData.present /\ Req.pageUrl \in {Undefined, ""}

\* C21: generatePdf called with a request object whose pageUrl is absent or
\* empty returns the 400 response "pageUrl is required"; no page is opened,
\* nothing is navigated to (so no default URL stands in for the missing one)
\* and nothing is uploaded, and the handler answers with that response.
C21_PageUrlIsRequired ==
    (GenCalled /\ NoPageUrl)
    => /\ result.kind = "return"
       /\ result.value.statusCode = 400
       /\ result.value.body.message = "pageUrl is required"
       /\ \A i \in 1..Len(calls) : calls[i] \in {"launch", "browser.close"}
       /\ puts = <<>>
       /\ store = {}
       /\ response.kind = "resolve"
          => response.value.body.message = "pageUrl is required"

C21_Witness ==
    /\ requestData.present
    /\ Req.pageUrl = ""
    /\ result.kind = "return"
    /\ response.kind = "resolve"
    /\ response.value.statusCode = 400

\* the strings that are absolute URLs of scheme http or https (a URL's scheme
\* is case-insensitive and needs a host after it)
AbsoluteHttpUrls == HttpUrls \cup { "HTTPS://EXAMPLE.COM/a" }

\* C22: isValidUrl(s) returns true iff s parses as an absolute URL whose
\* scheme is http or https; for every other string (unparseable text, the
\* empty string, ftp:, javascript:, file:, data:, mailto:, relative and
\* scheme-relative references, a scheme without host) it returns false: the
\* call yields a boolean for every argument, also where the parser throws.
C22_IsValidUrlIffHttp ==
    urlOut.called
    => /\ urlOut.value \in BOOLEAN
       /\ urlOut.value <=> (urlIn \in AbsoluteHttpUrls)

C22_Witness ==
    /\ urlOut.called
    /\ urlIn = "data:text/html,hi"
    /\ ~urlOut.value

\* a password was supplied: it is neither absent nor empty
Supplied(p) == ~NoPassword(p)

\* C23: when at least one password is supplied and the library encrypts,
\* the returned bytes are the input's content encrypted with the user
\* password as the opening credential (the empty string when only an owner
\* password is supplied) and with the owner password as the owning
\* credential (the user password when no owner password is supplied).
C23_CredentialsOfEncryption ==
    (/\ protectOut.called
     /\ Supplied(protectIn.userPassword) \/ Supplied(protectIn.ownerPassword)
     /\ protectIn.lib = "ok")
    => /\ protectOut.r.protected
       /\ protectOut.r.buffer.encrypted
       /\ protectOut.r.buffer.data = protectIn.buffer.data
       /\ protectOut.r.buffer.userPassword =
              IF Supplied(protectIn.userPassword) THEN protectIn.userPassword
              ELSE ""
       /\ protectOut.r.buffer.ownerPassword =
              IF Supplied(protectIn.ownerPassword) THEN protectIn.ownerPassword
              ELSE protectIn.userPassword

C23_Witness ==
    /\ protectOut.called
    /\ protectIn.userPassword = "secret123"
    /\ protectIn.ownerPassword = ""
    /\ protectOut.r.buffer.ownerPassword = "secret123"

\* the runs that have started
Started == { r \in RunIds : runs[r].pc # "idle" }

\* C24: any two distinct pipeline runs have different requestIds, also when
\* they start in the same clock millisecond.
C24_RequestIdsAreUnique ==
    \A r1, r2 \in Started : r1 # r2 => runs[r1].requestId # runs[r2].requestId

\* f, in units of 1e-7 USD, is the amount durationMs * w / 1000 / 1024
\* rounded to 7 decimals, for a rate w in units of 1e-10 USD per second and
\* 1024 MB: the amount, in ten-thousandths of f's unit divided by 1024, is
\* whole + rest / 10000, and f is within half a unit of it
RoundsTo7(f, durationMs, w) ==
    LET whole == durationMs * (w \div 10000)
                 + (durationMs * (w % 10000)) \div 10000
        rest == (durationMs * (w % 10000)) % 10000
    IN  /\ f * 102400 - 51200 <= whole
        /\ \/ whole < f * 102400 + 51200
           \/ whole = f * 102400 + 51200 /\ rest = 0

\* the disk that is charged for
ChargedDisk(diskMB) ==
    IF diskMB > MIN_EPHEMERAL_STORAGE_MB
    THEN diskMB - MIN_EPHEMERAL_STORAGE_MB ELSE 0

\* request cost and upload cost, in units of 1e-7 USD
FixedCosts == (REQUEST_RATE + S3_PUT_COST) \div 1000

\* C25: for all inputs calculateCost returns computeCost = durationRate *
\* memoryMB * durationMs / 1000 / 1024, storageCost = max(0, diskMB - 512) *
\* storageRate * durationMs / 1000 / 1024 (zero whenever diskMB <= 512) and
\* totalCost = computeCost + storageCost + requestRate + upload cost, each
\* rounded to 7 decimals, and estimatedCostUSD equal to breakdown.totalCost.
C25_CostFollowsTheFormula ==
    costOut.called
    => LET d == costIn.durationMs
           charged == ChargedDisk(costIn.diskSizeMB)
           b == costOut.r.breakdown
       IN  /\ ~costOut.r.raised
           /\ RoundsTo7(b.computeCost, d, DURATION_RATE * costIn.memorySizeMB)
           /\ RoundsTo7(b.storageCost, d, charged * STORAGE_RATE)
           /\ costIn.diskSizeMB <= MIN_EPHEMERAL_STORAGE_MB => b.storageCost = 0
           /\ b.requestCost * 1000 = REQUEST_RATE
           /\ b.s3PutCost * 1000 = S3_PUT_COST
           /\ RoundsTo7(b.totalCost - FixedCosts, d,
                        DURATION_RATE * costIn.memorySizeMB
                        + charged * STORAGE_RATE)
           /\ costOut.r.estimatedCostUSD = b.totalCost

\* C26: for durationMs = 0 and any memory, disk and region, calculateCost
\* returns computeCost = 0 and storageCost = 0, and a total that is the
\* request cost plus the upload cost.
C26_ZeroDurationCostsTheFixedPart ==
    (costOut.called /\ costIn.durationMs = 0)
    => /\ ~costOut.r.raised
       /\ costOut.r.breakdown.computeCost = 0
       /\ costOut.r.breakdown.storageCost = 0
       /\ costOut.r.breakdown.totalCost = FixedCosts
       /\ costOut.r.estimatedCostUSD = FixedCosts

\* C28: for a region that is not a key of the pricing table, calculateCost
\* returns the cost fields it returns for the default region with the same
\* duration, memory and disk.
C28_UnknownRegionGetsDefaultRates ==
    (costOut.called /\ costIn.region \notin DOMAIN LAMBDA_PRICING)
    => LET ref == calculateCost(costIn.durationMs, costIn.memorySizeMB,
                                costIn.diskSizeMB, "ap-south-1")
       IN  /\ ~costOut.r.raised
           /\ costOut.r.estimatedCostUSD = ref.estimatedCostUSD
           /\ costOut.r.breakdown = ref.breakdown

\* generatePdf returned its success response
Succeeded == result.kind = "return" /\ result.value.statusCode = 200

\* what the page has emitted, as log entries: all console output, and the
\* errors (console errors and runtime errors)
ConsoleLog == EntriesOf(SelectSeq(emitted, IsConsole))
ErrorLog == EntriesOf(SelectSeq(emitted, IsError))

\* C29: in a success response the console log is present iff
\* includeConsoleLogs is set and pageErrors is present iff the error log is
\* non-empty, each being the log itself; the response always carries
\* requestId, bucket, key, the security outcome and the metrics (durationMs
\* and totalCostUSD, as computed), and the handler passes this payload on.
C29_SuccessResponseFields ==
    Succeeded
    => LET body == result.value.body
       IN  /\ IsSome(body.consoleMessages) <=> Req.pdfOptions.includeConsoleLogs
           /\ IsSome(body.consoleMessages)
              => body.consoleMessages = Some(ConsoleLog)
           /\ IsSome(body.pageErrors) <=> ErrorLog # <<>>
           /\ IsSome(body.pageErrors) => body.pageErrors = Some(ErrorLog)
           /\ Truthy(body.requestId)
           /\ Truthy(body.bucket)
           /\ Truthy(body.key)
           /\ IsSome(body.security)
           /\ body.metrics = Some([ durationMs |-> metrics.durationMs,
                                    totalCostUSD |-> metrics.breakdown.totalCost ])
           /\ response.kind = "resolve" => response.value.body = body

C29_Witness ==
    /\ Succeeded
    /\ ~Req.pdfOptions.includeConsoleLogs
    /\ Len(ConsoleLog) = 1
    /\ Len(ErrorLog) = 2
    /\ response.kind = "resolve"

\* the progress record an upload carries
RecordOf(put) == put.Body.json[1]

Launched == "launch:ok" \in Range(settled)

\* generatePdf has settled, by returning or by throwing
PipelineFinished == result.kind \in {"return", "throw"}

\* the handler answered before its try block's launch: rejected key, method
\* other than POST, body that is not JSON
EndsBeforeLaunch ==
    Handled /\ (~CarriesKey \/ Method # "POST" \/ BodyIsNotJson)

\* C31: the handler calls browser.close at most once, only on a browser
\* that was launched, only after generatePdf has settled (whatever it
\* returned or threw) and as its last operation; when the handler is done,
\* close has been called exactly once if the browser was launched and never
\* otherwise.  An event that fails authentication, is not a POST or has a
\* body that is not JSON launches no browser and calls no close.
C31_BrowserClosedExactlyOnce ==
    /\ Count(calls, "browser.close") <= 1
    /\ Count(calls, "browser.close") = 1
       => /\ Launched
          /\ PipelineFinished
          /\ calls[Len(calls)] = "browser.close"
    /\ hpc = "done" => (Count(calls, "browser.close") = 1 <=> Launched)
    /\ EndsBeforeLaunch
       => /\ hpc = "done"
          /\ Count(calls, "launch") = 0
          /\ Count(calls, "browser.close") = 0

C31_Witness ==
    /\ hpc = "done"
    /\ Launched
    /\ result.kind = "throw"
    /\ Count(calls, "browser.close") = 1
    /\ Count(calls, "put") = 2


(***************************************************************************)
(* The progress record against the response of the same run.               *)
(***************************************************************************)
\* the number of entries of pageErrors in the run's response (the field is
\* left out when the list is empty)
ListedErrors ==
    IF result.value.body.pageErrors = None THEN 0
    ELSE Len(result.value.body.pageErrors[1])

\* C32: in a successful run that uploaded its progress record, the record's
\* errorCount is the number of entries of pageErrors in the run's success
\* response and its hasErrors flag says whether that number is positive,
\* whenever the page emitted its errors.
C32_RecordAgreesWithResponse ==
    (Succeeded /\ Len(puts) = 2)
    => /\ RecordOf(puts[2]).response.errorCount = ListedErrors
       /\ RecordOf(puts[2]).response.hasErrors <=> ListedErrors > 0


(***************************************************************************)
(* What a run that did not succeed leaves in the store.                    *)
(***************************************************************************)
\* generatePdf settled otherwise than by returning 200
NonSuccess == PipelineFinished /\ ~Succeeded

\* C33 as stated: a run that ends with 400, 502, 422 or a thrown error
\* leaves no artifact and no progress record in the store.
C33_OnlySuccessLeavesObjects == NonSuccess => store = {}

\* C33, amended: a run that ends with 400, 502 or 422 has sent nothing to
\* the store and leaves it empty.  A run that ends with a thrown error
\* leaves no progress record; it leaves its artifact, alone, exactly when
\* the artifact's upload had succeeded before the error was thrown.
C33_EarlyFailuresLeaveNothing ==
    /\ (result.kind = "return" /\ result.value.statusCode \in {400, 502, 422})
       => /\ store = {}
          /\ puts = <<>>
    /\ result.kind = "throw"
       => /\ \A o \in store : o.ContentType = "application/pdf"
          /\ store # {} <=> "put:ok" \in Range(settled)
          /\ store # {} => store = {puts[1]}

C33_Witness ==
    /\ hpc = "done"
    /\ result.kind = "throw"
    /\ response.kind = "resolve"
    /\ response.value.statusCode = 500
    /\ Len(puts) = 2
    /\ store = {puts[1]}


(***************************************************************************)
(* A request without a body.                                               *)
(***************************************************************************)
\* the event has no body, or an empty one
BodyIsMissing == event.body.raw \in {"absent", "empty"}

\* C34: an authenticated POST with an empty or missing body, handled with a
\* browser that launches and closes without error, is answered with 400
\* "pageUrl is required", as a body of {} is, and opens no page.
C34_MissingBodyIs400 ==
    (/\ Handled /\ CarriesKey /\ Method = "POST" /\ BodyIsMissing
     /\ Launched /\ hpc = "done" /\ "browser.close:ok" \in Range(settled))
    => /\ response.kind = "resolve"
       /\ response.value.statusCode = 400
       /\ response.value.body.message = "pageUrl is required"
       /\ Count(calls, "newPage") = 0


(***************************************************************************)
(* Concurrent calls of generatePdf that upload into one folder of the      *)
(* store: same bucket and path prefix, a file name each.  The pages are    *)
(* silent; the store applies an upload when its send resolves.             *)
(***************************************************************************)
FolderConfigs ==
    { [ bucket |-> "my-bucket", key |-> "reports", fileName |-> f ] :
        f \in {"report.pdf", "invoice.pdf"} }

\* line 251
bucketNameOf(cfg) == OrElse(cfg.bucket, OrElse(env.PDF_BUCKET, "pdf-storage-1"))

\* lines 252-253
objectKeyOf(cfg) ==
    LET fileName == OrElse(cfg.fileName, "page-" \o ToString(Now) \o ".pdf")
    IN  IF Truthy(cfg.key) THEN cfg.key \o "/" \o fileName
        ELSE "pdfs/" \o fileName

\* a record of its own beside each artifact
progressKeyOf_BesideArtifact(cfg) == objectKeyOf(cfg) \o ".progress.json"

\* line 294
progressKeyOf(cfg) ==
    IF Truthy(cfg.key) THEN cfg.key \o "/progress.json"
    ELSE "pdfs/progress.json"

\* lines 272-283: the fields of the record that identify the run and its
\* artifact (the request's echo, the timestamp, security and metrics are
\* left out)
runProgressData(run) ==
    [ requestId |-> run.requestId,
      response |-> [ status |-> "success",
                     bucket |-> bucketNameOf(run.s3BucketConfig),
                     key |-> objectKeyOf(run.s3BucketConfig),
                     s3Url |-> S3Url(bucketNameOf(run.s3BucketConfig),
                                     objectKeyOf(run.s3BucketConfig)),
                     hasErrors |-> run.errorCount > 0,
                     errorCount |-> run.errorCount ] ]

\* everything but runs, heap, store and settled
folderRest ==
    <<env, hpc, pc, requestData, browser, calls, navResponse,
      pageErrors, consoleMessages, pdfBuffer, isPasswordProtected, bucketName,
      objectKey, metrics, puts, startTime, requestId, ticks, result,
      response, protectIn, protectOut, urlIn, urlOut, costIn, costOut,
      event, emitted>>

\* lines 186-202: a call whose file name no other call uses
FolderRunCall(r, cfg, rnd) ==
    /\ runs[r].pc = "idle"
    /\ \A q \in RunIds \ {r} : runs[q].s3BucketConfig.fileName # cfg.fileName
    /\ runs' = [ runs EXCEPT ![r] = [ NoRun EXCEPT
                     !.pc = "newPage",
                     !.requestId = newRequestId(Now, rnd),
                     !.s3BucketConfig = cfg ] ]
    /\ UNCHANGED <<heap, single>>

\* lines 256-291: the artifact's upload settles; the record is built
FolderPutPdfReturn(r, out) ==
    /\ runs[r].pc = "putPdf"
    /\ IF out = "ok"
       THEN /\ store' = StorePut(store,
                    PutObjectCommand(bucketNameOf(runs[r].s3BucketConfig),
                                     objectKeyOf(runs[r].s3BucketConfig),
                                     PdfBody(PlainPdf("rendered page")),
                                     "application/pdf"))
            /\ runs' = [ runs EXCEPT
                           ![r].pc = "putProgress",
                           ![r].errorCount = Len(heap[runs[r].logs].pageErrors) ]
       ELSE /\ runs' = [ runs EXCEPT ![r] = runThrow(@) ]
            /\ UNCHANGED store
    /\ settled' = Append(settled, r \o ":put:" \o out)
    /\ UNCHANGED <<heap, folderRest>>

\* lines 293-323: the record's upload settles
FolderPutProgressReturn(r, out) ==
    /\ runs[r].pc = "putProgress"
    /\ IF out = "ok"
       THEN /\ store' = StorePut(store,
                    PutObjectCommand(bucketNameOf(runs[r].s3BucketConfig),
                                     progressKeyOf(runs[r].s3BucketConfig),
                                     JsonBody(runProgressData(runs[r])),
                                     "application/json"))
            /\ runs' = [ runs EXCEPT ![r] = runReturn(@, heap[@.logs], 200) ]
       ELSE /\ runs' = [ runs EXCEPT ![r] = runThrow(@) ]
            /\ UNCHANGED store
    /\ settled' = Append(settled, r \o ":progress:" \o out)
    /\ UNCHANGED <<heap, folderRest>>

NextFolder ==
    \E r \in RunIds :
        \/ \E cfg \in FolderConfigs, rnd \in RandomSuffixes :
              FolderRunCall(r, cfg, rnd)
        \/ \E out \in Outcomes : RunNewPageReturn(r, out)
        \/ \E out \in Outcomes : RunInjectReturn(r, out)
        \/ \E nav \in NavOutcomes : RunGotoReturn(r, nav)
        \/ \E out \in Outcomes : RunPdfReturn(r, out)
        \/ \E out \in Outcomes : FolderPutPdfReturn(r, out)
        \/ \E out \in Outcomes : FolderPutProgressReturn(r, out)

SpecFolder == InitRuns /\ [][NextFolder]_vars

\* the artifacts and the progress records in the store
Artifacts == { o \in store : o.ContentType = "application/pdf" }
Records == { o \in store : o.ContentType = "application/json" }

\* the calls that returned 200
SucceededRuns ==
    { r \in RunIds : runs[r].pc = "returned" /\ runs[r].statusCode = 200 }

\* every call made so far has returned 200
AllSucceeded == \A r \in RunIds : runs[r].pc = "idle" \/ r \in SucceededRuns

\* the record p names the artifact o
Names(p, o) ==
    /\ RecordOf(p).response.bucket = o.Bucket
    /\ RecordOf(p).response.key = o.Key

\* C35 as stated: after any successful runs into one folder with different
\* file names, every artifact in the store has a progress record in the
\* store that names it.
C35_EveryArtifactHasItsRecord ==
    AllSucceeded => \A o \in Artifacts : \E p \in Records : Names(p, o)

\* the call whose record the store applied last
LastRecorded ==
    CHOOSE r \in RunIds :
        \E i \in 1..Len(settled) :
            /\ settled[i] = r \o ":progress:ok"
            /\ \A j \in (i + 1)..Len(settled) :
                  \A q \in RunIds : settled[j] # q \o ":progress:ok"

\* C35, amended: every successful run's artifact is in the store under
\* {pathPrefix}/{fileName}; the folder has at most one progress record, at
\* {pathPrefix}/progress.json, and once a run has succeeded it is the
\* record of the run whose record the store applied last, naming that
\* run's artifact.
C35_FolderKeepsLastRecord ==
    /\ \A r \in SucceededRuns :
          \E o \in Artifacts :
              /\ o.Bucket = runs[r].s3BucketConfig.bucket
              /\ o.Key = runs[r].s3BucketConfig.key \o "/"
                           \o runs[r].s3BucketConfig.fileName
    /\ Cardinality(Records) <= 1
    /\ \A p \in Records : p.Key = "reports/progress.json"
    /\ SucceededRuns # {}
       => /\ LastRecorded \in SucceededRuns
          /\ \E p \in Records :
                /\ RecordOf(p).requestId = runs[LastRecorded].requestId
                /\ RecordOf(p).response.key
                     = "reports/" \o runs[LastRecorded].s3BucketConfig.fileName

C35_Witness ==
    /\ SucceededRuns = RunIds
    /\ Cardinality(Artifacts) = 2
    /\ Cardinality(Records) = 1
    /\ LastRecorded = "a"


(***************************************************************************)
(* The handler's promise.                                                  *)
(***************************************************************************)
HandlerStatuses == {200, 400, 401, 405, 422, 500, 502}

\* C36: whatever the event is and whatever the browser, the page and the
\* store do, the browser's close throwing included, a handler that has
\* finished has resolved with one response, whose status is one of 200, 400,
\* 401, 405, 422, 500, 502; it has not rejected.
C36_HandlerNeverRejects ==
    hpc = "done"
    => /\ response.kind = "resolve"
       /\ response.value.statusCode \in HandlerStatuses


(***************************************************************************)
(* Navigation failure and the error threshold together.                    *)
(***************************************************************************)
\* C37: when navigation returns null or a non-ok response while the page has
\* emitted errors and failOnErrors is set, generatePdf returns 502 with the
\* error log and without the console log, never 422, and the extra wait is
\* not performed, whatever waitTime is.
C37_NavigationFailureBeforeThreshold ==
    (NavFailed /\ Req.pdfOptions.failOnErrors /\ ErrorLog # <<>>)
    => /\ result.kind = "return"
       /\ result.value.statusCode = 502
       /\ result.value.statusCode # 422
       /\ result.value.body.message = "Failed to load the page"
       /\ result.value.body.pageErrors = Some(ErrorLog)
       /\ result.value.body.consoleMessages = None
       /\ Count(calls, "setTimeout") = 0

C37_Witness ==
    /\ NavFailed
    /\ navResponse.kind = "response"
    /\ Req.pdfOptions.failOnErrors
    /\ Req.pdfOptions.waitTime = 500
    /\ Len(ErrorLog) = 2
    /\ result.value.statusCode = 502
    /\ hpc = "done"


(***************************************************************************)
(* The security outcome of a successful run.                               *)
(***************************************************************************)
\* the outcome o has the flag f, and it is true
Reports(o, f) == f \in DOMAIN o /\ o[f]

\* the request asked for encryption
EncryptionRequested == Supplied(Req.security.password) \/ Supplied(Req.security.ownerPassword)

\* what C38 says of a security outcome o
SecurityOutcomeIsRight(o) ==
    /\ Reports(o, "requested") <=> EncryptionRequested
    /\ Reports(o, "applied")
       => /\ EncryptionRequested
          /\ "encryptPDF:ok" \in Range(settled)
    /\ Reports(o, "applied") <=> pdfBuffer.encrypted
    /\ ~Reports(o, "applied") => pdfBuffer \in Rasterized

\* C38: in the success response, and in the progress record when one is
\* uploaded, the security outcome has requested true iff a non-empty
\* password or ownerPassword was supplied, has applied true only if
\* requested is true and the encryptor succeeded, and the bytes of the run
\* are the encryptor's output iff applied is true, the rasterized bytes
\* otherwise.
C38_SecurityOutcomeIsFaithful ==
    Succeeded
    => /\ SecurityOutcomeIsRight(result.value.body.security[1])
       /\ Len(puts) = 2 => SecurityOutcomeIsRight(RecordOf(puts[2]).security)
       /\ Len(puts) = 2 => puts[1].Body.pdf = Some(pdfBuffer)

====
